---- MODULE Spec2Model ----
(***************************************************************************)
(* quickdraw: real-time entity synchronisation.                            *)
(*                                                                         *)
(* Server side: BaseService (subscriber registry, access evaluation,       *)
(* field filter, CRUD with push) and ServiceRegistry (method / subscribe / *)
(* unsubscribe listeners).  Client side: the connection-scoped             *)
(* subscription registry and the useSubscription effect.                   *)
(*                                                                         *)
(* Specifications:                                                         *)
(*   SpecAccess     the access evaluator as a pure function of its inputs  *)
(*   SpecServer     sockets, subscriber registry, rooms, all listeners     *)
(*   SpecSubscribe  the subscribe / unsubscribe listeners alone            *)
(*   SpecMethods    the method listener alone                              *)
(*   SpecPush       subscriptions and update pushes                        *)
(*   SpecAdmin      subscriptions and the removal of all subscribers       *)
(*   SpecOrder      updates of one entry called concurrently               *)
(*   SpecAcl        subscriptions while the entry's ACL is replaced        *)
(*   SpecLevel      subscriptions with a client-chosen required level      *)
(*   SpecClient     client subscription registry and observers             *)
(*   SpecCache      client query cache under acknowledgments and pushes    *)
(*   SpecCall       method hooks: requests, timeouts, acknowledgments      *)
(*   SpecLimit      the rate limiter and its socket middleware             *)
(*   SpecInput      one input bound to an entity property (useSocketInput) *)
(***************************************************************************)
EXTENDS Integers, Sequences, FiniteSets, TLC

VARIABLES
    acIn,          \* SpecAccess: the inputs of one access evaluation
    acOut,         \* SpecAccess: its outcome
    sockets,       \* server: per connection {connected, userId, serviceAccess}
    subscribers,   \* server: per service, Map entryId -> Set of sockets
    rooms,         \* server: socket.io room membership, per service and entry
    db,            \* server: persistence delegate content, per service and id
    req,           \* server: the request each connection has in flight
    muts,          \* server: mutations whose delegate call is pending, in call order
    emitted,       \* server: pushes emitted by the latest step
    subscriptions, \* client: the registry Map key -> {refCount, cleanup}
    observers,     \* client: the key each mounted observer holds
    wire,          \* client: messages emitted by the latest step
    listeners,     \* client: keys with an update listener on the socket
    isConnected,   \* client: transport state
    socketRef,     \* client: the provider holds a socket (socketRef.current)
    cleared,       \* client: clear() has run since the provider was created
    sent,          \* client: per key, subscribe / unsubscribe messages emitted
    acks,          \* client: per key, subscribe requests not yet acknowledged
    cache,         \* client: the query cache, per subscription key
    lastRet,       \* client: what the latest registry call did
    subHook,       \* client: per observer isSubscribed; per key the creating observer
    call,          \* client: one method hook, its requests and what it shows
    now,           \* rate limiter: Date.now()
    entries,       \* rate limiter: Map key -> {count, resetAt}
    trues,         \* rate limiter: per key and time, the calls of check that returned true
    limited,       \* rate limiter: what the middleware did with the latest event
    input          \* client: one useSocketInput hook and its update calls

accessVars == <<acIn, acOut>>
serverVars == <<sockets, subscribers, rooms, db, req, muts, emitted>>
clientVars == <<subscriptions, observers, wire, listeners, isConnected,
                socketRef, cleared, sent, acks, cache, lastRet, subHook>>
vars == <<acIn, acOut, sockets, subscribers, rooms, db, req, muts, emitted,
          subscriptions, observers, wire, listeners, isConnected, socketRef,
          cleared, sent, acks, cache, lastRet, subHook, call,
          now, entries, trues, limited, input>>
limitVars == <<now, entries, trues, limited>>
\* the state of the components beside the services and the subscription client
sideVars == <<limitVars, input>>

----------------------------------------------------------------------------
(* Identities and configuration                                            *)

NoUser == "anon"          \* socket.userId undefined
NoEntry == "noEntry"      \* no entry id resolved for a method call

Users == {"u1", "u2", "u3"}
Services == {"docService", "userService"}
\* ids of user entities are user ids, so "u1" is also the entry u1 owns
Entries == {"d1", "u1"}
Levels == {"Public", "Read", "Moderate", "Admin"}
GrantLevels == {"Read", "Moderate", "Admin"}

\* BaseServiceOptions.hasEntryACL of the two registered services
HasEntryACL(svc) == svc = "docService"

----------------------------------------------------------------------------
(* Bounds                                                                  *)

\* longest access-control list drawn as an input
MaxAclLen == 2
\* requests suspended at an await at the same time
MaxInFlight == 1
\* components that can observe a subscription
NumObservers == 3
\* subscribe messages counted per key
MaxPeriods == 2
\* mutations whose delegate call is pending at the same time
MaxMutations == 2
\* requests one method hook emits
MaxCalls == 2
\* latest value of the clock, in milliseconds
MaxNow == 4
\* local changes made to one input
MaxChanges == 3

----------------------------------------------------------------------------
(* Access evaluator (BaseService, "Access Control")                        *)

\* order: Record<AccessLevel, number>; an unknown level reads as 0 (?? 0)
LevelOrder(level) ==
    CASE level = "Public" -> 0
      [] level = "Read" -> 1
      [] level = "Moderate" -> 2
      [] level = "Admin" -> 3
      [] OTHER -> 0

isLevelSufficient(userLevel, requiredLevel) ==
    LevelOrder(userLevel) >= LevelOrder(requiredLevel)

\* socket.serviceAccess?.[this.serviceName]; no level for the service: false
hasServiceAccess(svc, socket, requiredLevel) ==
    IF svc \notin DOMAIN socket.serviceAccess
    THEN FALSE
    ELSE isLevelSufficient(socket.serviceAccess[svc], requiredLevel)

\* checkAccess hook: the base class denies; userService overrides it with
\* the self-access pattern (a user may act on its own entity)
checkAccess(svc, userId, entryId, requiredLevel) ==
    IF svc = "userService" THEN userId = entryId ELSE FALSE

\* The outcome of delegate.findUnique: an entity (with or without an acl
\* array), null, or a rejected promise.
FoundNull == [kind |-> "null", hasAcl |-> FALSE, acl |-> <<>>]
FoundThrows == [kind |-> "throws", hasAcl |-> FALSE, acl |-> <<>>]
FoundEntity(hasAcl, acl) == [kind |-> "entity", hasAcl |-> hasAcl, acl |-> acl]

\* acl.find((a) => a.userId === userId): the index of the first match, 0 if none
FirstAce(acl, userId) ==
    IF \E i \in DOMAIN acl : acl[i].userId = userId
    THEN CHOOSE i \in DOMAIN acl :
            /\ acl[i].userId = userId
            /\ \A j \in DOMAIN acl : acl[j].userId = userId => i <= j
    ELSE 0

\* Variant of checkEntryACL that accepts any entry for the user, whatever
\* its level
checkEntryACLAnyLevel(found, userId, requiredLevel) ==
    IF found.kind = "throws" THEN FALSE
    ELSE IF found.kind = "null" THEN FALSE
    ELSE IF ~found.hasAcl THEN FALSE
    ELSE FirstAce(found.acl, userId) # 0

\* Variant of checkEntryACL that lets the caller through when the lookup
\* throws
checkEntryACLOpenOnError(found, userId, requiredLevel) ==
    IF found.kind = "throws" THEN TRUE
    ELSE IF found.kind = "null" THEN FALSE
    ELSE IF ~found.hasAcl THEN FALSE
    ELSE LET i == FirstAce(found.acl, userId)
         IN IF i = 0 THEN FALSE
            ELSE isLevelSufficient(found.acl[i].level, requiredLevel)

checkEntryACL(found, userId, requiredLevel) ==
    IF found.kind = "throws" THEN FALSE          \* catch { return false }
    ELSE IF found.kind = "null" THEN FALSE       \* entity?.acl is undefined
    ELSE IF ~found.hasAcl THEN FALSE
    ELSE LET i == FirstAce(found.acl, userId)
         IN IF i = 0 THEN FALSE
            ELSE isLevelSufficient(found.acl[i].level, requiredLevel)

\* The part of checkSubscriptionAccess that runs before its only await:
\* "granted", "denied", or "acl" when checkEntryACL has to be awaited.
SubscriptionAccessSync(svc, socket, entryId, requiredLevel) ==
    IF hasServiceAccess(svc, socket, requiredLevel) THEN "granted"
    ELSE IF checkAccess(svc, socket.userId, entryId, requiredLevel) THEN "granted"
    ELSE IF HasEntryACL(svc) THEN "acl"
    ELSE "denied"

checkSubscriptionAccess(svc, socket, entryId, requiredLevel, found) ==
    LET s == SubscriptionAccessSync(svc, socket, entryId, requiredLevel)
    IN IF s = "acl"
       THEN checkEntryACL(found, socket.userId, requiredLevel)
       ELSE s = "granted"

\* The part of ensureAccessForMethod that runs before its only await: "ok",
\* the message of the Error it throws, or "acl".
EnsureAccessSync(svc, requiredLevel, socket, entryId) ==
    IF requiredLevel = "Public" THEN "ok"
    ELSE IF socket.userId = NoUser THEN "Authentication required"
    ELSE IF hasServiceAccess(svc, socket, requiredLevel) THEN "ok"
    ELSE IF entryId # NoEntry
         THEN IF checkAccess(svc, socket.userId, entryId, requiredLevel) THEN "ok"
              ELSE IF HasEntryACL(svc) THEN "acl"
              ELSE "Insufficient permissions"
    ELSE IF requiredLevel = "Read" THEN "ok"
    ELSE "Insufficient permissions"

ensureAccessForMethod(svc, requiredLevel, socket, entryId, found) ==
    LET s == EnsureAccessSync(svc, requiredLevel, socket, entryId)
    IN IF s = "acl"
       THEN IF checkEntryACL(found, socket.userId, requiredLevel)
            THEN "ok" ELSE "Insufficient permissions"
       ELSE s

----------------------------------------------------------------------------
(* SpecAccess: one evaluation of the access evaluator on drawn inputs       *)

BoundedSeq(S, n) == UNION {[1..k -> S] : k \in 0..n}

AceValues == [userId : Users, level : GrantLevels]
AclValues == BoundedSeq(AceValues, MaxAclLen)
FoundValues ==
    {FoundNull, FoundThrows, FoundEntity(FALSE, <<>>)}
        \cup {FoundEntity(TRUE, acl) : acl \in AclValues}

\* Record<string, AccessLevel>: a level for some of the services
AccessMaps == UNION {[D -> GrantLevels] : D \in SUBSET Services}
Anonymous == [userId |-> NoUser, serviceAccess |-> <<>>]
SocketValues ==
    {Anonymous} \cup [userId : Users, serviceAccess : AccessMaps]

AccessInputs ==
    [svc : Services, socket : SocketValues, entryId : Entries \cup {NoEntry},
     requiredLevel : Levels, found : FoundValues]

NoOutcome == [op |-> "none", result |-> "none", aclConsulted |-> FALSE]

AccessIdle ==
    /\ acIn = [svc |-> "docService", socket |-> Anonymous, entryId |-> NoEntry,
               requiredLevel |-> "Public", found |-> FoundNull]
    /\ acOut = NoOutcome

\* subscribe calls checkSubscriptionAccess only for an authenticated socket
\* and always with an entry id
ApplyCheckSubscriptionAccess ==
    /\ acOut.op = "none"
    /\ acIn.socket.userId # NoUser
    /\ acIn.entryId # NoEntry
    /\ acOut' = [op |-> "checkSubscriptionAccess",
                 result |-> IF checkSubscriptionAccess(acIn.svc, acIn.socket,
                                    acIn.entryId, acIn.requiredLevel, acIn.found)
                            THEN "granted" ELSE "denied",
                 aclConsulted |-> SubscriptionAccessSync(acIn.svc, acIn.socket,
                                    acIn.entryId, acIn.requiredLevel) = "acl"]
    /\ UNCHANGED acIn

ApplyEnsureAccessForMethod ==
    /\ acOut.op = "none"
    /\ acOut' = [op |-> "ensureAccessForMethod",
                 result |-> ensureAccessForMethod(acIn.svc, acIn.requiredLevel,
                                    acIn.socket, acIn.entryId, acIn.found),
                 aclConsulted |-> EnsureAccessSync(acIn.svc, acIn.requiredLevel,
                                    acIn.socket, acIn.entryId) = "acl"]
    /\ UNCHANGED acIn

----------------------------------------------------------------------------
(* Server state                                                            *)

Sockets == {"k1", "k2"}

Offline == [connected |-> FALSE, userId |-> NoUser, serviceAccess |-> <<>>]

\* what a connection can carry after the authentication middleware and the
\* application's session loading: no identity, an identity without grants,
\* or an identity with service-level grants
ConnectIdentities ==
    {Anonymous,
     [userId |-> "u1", serviceAccess |-> <<>>],
     [userId |-> "u2", serviceAccess |-> <<>>],
     [userId |-> "u3",
      serviceAccess |-> ("docService" :> "Admin") @@ ("userService" :> "Read")]}

Titles == {"t0", "t1"}
Absent == [exists |-> FALSE, title |-> "t0", hasAcl |-> FALSE, acl |-> <<>>]
Row(title, hasAcl, acl) ==
    [exists |-> TRUE, title |-> title, hasAcl |-> hasAcl, acl |-> acl]

\* Seeded store: document d1 with an ACL granting u2 Read, user u1; the
\* other ids name no row.
SeedDb ==
    [svc \in Services |->
        [e \in Entries |->
            IF svc = "docService" /\ e = "d1"
            THEN Row("t0", TRUE, <<[userId |-> "u2", level |-> "Read"]>>)
            ELSE IF svc = "userService" /\ e = "u1"
            THEN Row("t0", FALSE, <<>>)
            ELSE Absent]]

\* Variant of findUnique that answers from the store as it was seeded
findUniqueSeed(svc, entryId) ==
    IF SeedDb[svc][entryId].exists
    THEN FoundEntity(SeedDb[svc][entryId].hasAcl, SeedDb[svc][entryId].acl)
    ELSE FoundNull

\* delegate.findUnique({where: {id}}) on the current store
findUnique(svc, entryId) ==
    IF db[svc][entryId].exists
    THEN FoundEntity(db[svc][entryId].hasAcl, db[svc][entryId].acl)
    ELSE FoundNull

\* The entity as the delegate returns it: a map from field name to value.
RowEntity(entryId, row) ==
    LET base == ("id" :> entryId) @@ ("title" :> row.title)
                  @@ ("email" :> "mail") @@ ("serviceAccess" :> "grants")
    IN IF row.hasAcl THEN base @@ ("acl" :> row.acl) ELSE base

EntityOf(svc, entryId) == RowEntity(entryId, db[svc][entryId])

\* delete's broadcast payload
Tombstone(entryId) == ("id" :> entryId) @@ ("deleted" :> TRUE)

\* Map<string, Set<QuickdrawSocket>>: per entry id, whether the key is in the
\* map (has) and the set stored under it
NoSet == [has |-> FALSE, sockets |-> {}]
EmptyMap == [e \in Entries |-> NoSet]

\* A listener invocation suspended at an await.  who: the socket object the
\* listener closed over (it keeps its identity after a disconnect).  unsub:
\* the same peer's unsubscribe for the same entry was handled since the
\* subscribe request arrived.
NoReq ==
    [kind |-> "none", who |-> Offline, svc |-> "docService",
     entryId |-> NoEntry, level |-> "Read", pc |-> "none", trace |-> <<>>,
     acks |-> 0, unsub |-> FALSE]

\* What a listener invocation that returned in the latest step did: the
\* stages it passed, the envelope it handed to its callback, how many times
\* the callback ran.  For the disconnect handler: the subscriber sets the
\* socket was in when it ran (swept); the same for the unsubscribe listener.
\* For a mutation or an admin call: what it returned (outcome, count).
NoDone ==
    [kind |-> "none", trace |-> <<>>, acks |-> 0, success |-> FALSE,
     code |-> 0, data |-> <<>>, outcome |-> "none", swept |-> {},
     count |-> 0]

ServerInit ==
    /\ sockets = [k \in Sockets |-> Offline]
    /\ subscribers = [svc \in Services |-> EmptyMap]
    /\ rooms = [svc \in Services |-> [e \in Entries |-> {}]]
    /\ db = SeedDb
    /\ req = [k \in Sockets |-> NoReq]
    /\ muts = <<>>
    /\ emitted = [pushes |-> {}, done |-> NoDone]

----------------------------------------------------------------------------
(* Subscriber registry and field filter (BaseService)                      *)

\* Variant of addSubscriber that stores a set built from a lookup made before
\* other handlers ran: the members added in between are lost
addSubscriberFresh(map, entryId, socket) ==
    [map EXCEPT ![entryId] = [has |-> TRUE, sockets |-> {socket}]]

\* subscribe, lines 171-175: lazily create the set, add the socket
addSubscriber(map, entryId, socket) ==
    [map EXCEPT ![entryId] =
        [has |-> TRUE,
         sockets |-> (IF @.has THEN @.sockets ELSE {}) \cup {socket}]]

\* Variant of unsubscribe that keeps a set it has emptied
unsubscribeKeepEmpty(map, entryId, socket) ==
    IF map[entryId].has
    THEN [map EXCEPT ![entryId] =
            [has |-> TRUE, sockets |-> map[entryId].sockets \ {socket}]]
    ELSE map

\* Variant of unsubscribe that deletes the set of the entry when the socket is
\* not one of its members
unsubscribeDropSet(map, entryId, socket) ==
    IF map[entryId].has
    THEN LET subs == map[entryId].sockets \ {socket}
         IN IF Cardinality(subs) = 0 \/ socket \notin map[entryId].sockets
            THEN [map EXCEPT ![entryId] = NoSet]
            ELSE [map EXCEPT ![entryId] = [has |-> TRUE, sockets |-> subs]]
    ELSE map

\* unsubscribe, lines 196-202, on the map of one service
unsubscribe(map, entryId, socket) ==
    IF map[entryId].has
    THEN LET subs == map[entryId].sockets \ {socket}
         IN IF Cardinality(subs) = 0
            THEN [map EXCEPT ![entryId] = NoSet]
            ELSE [map EXCEPT ![entryId] = [has |-> TRUE, sockets |-> subs]]
    ELSE map

\* unsubscribeSocket on the map of one service: every entry is visited once
\* Variant of unsubscribeSocket that returns after the first set that held
\* the socket
unsubscribeSocketFirstOnly(map, socket) ==
    [e \in Entries |->
        IF map[e].has /\ socket \in map[e].sockets
              /\ e = (CHOOSE f \in Entries : map[f].has /\ socket \in map[f].sockets)
        THEN LET subs == map[e].sockets \ {socket}
             IN IF Cardinality(subs) = 0 THEN NoSet
                ELSE [has |-> TRUE, sockets |-> subs]
        ELSE map[e]]

unsubscribeSocket(map, socket) ==
    [e \in Entries |->
        IF map[e].has /\ socket \in map[e].sockets
        THEN LET subs == map[e].sockets \ {socket}
             IN IF Cardinality(subs) = 0 THEN NoSet
                ELSE [has |-> TRUE, sockets |-> subs]
        ELSE map[e]]

getProtectedFields == {"email", "serviceAccess"}

hasElevatedAccess(svc, socket, entryId) ==
    socket.userId = entryId \/ hasServiceAccess(svc, socket, "Admin")

\* Variant of stripProtectedFields that leaves serviceAccess in place
stripEmailOnly(entity) ==
    [f \in DOMAIN entity \ {"email"} |-> entity[f]]

stripProtectedFields(entity) ==
    [f \in DOMAIN entity \ getProtectedFields |-> entity[f]]

filterEntityForSubscriber(svc, entity, socket, entryId) ==
    IF hasElevatedAccess(svc, socket, entryId)
    THEN entity
    ELSE stripProtectedFields(entity)

\* Variant of emitUpdate that serves only the first socket of the set
emitUpdateFirstOnly(svc, entryId, data) ==
    IF ~subscribers[svc][entryId].has
           \/ Cardinality(subscribers[svc][entryId].sockets) = 0
    THEN {}
    ELSE LET fullData == data
             publicData == stripProtectedFields(data)
             first == CHOOSE j \in subscribers[svc][entryId].sockets : TRUE
         IN {[to |-> k, event |-> "update", svc |-> svc, entryId |-> entryId,
              overtaken |-> FALSE,
              payload |-> IF hasElevatedAccess(svc, sockets[k], entryId)
                          THEN fullData ELSE publicData]
                : k \in {j \in {first} : sockets[j].connected}}

\* emitUpdate: the pushes of one broadcast, one per socket of the entry's set;
\* an emit on a socket whose connection is closed delivers nothing
emitUpdate(svc, entryId, data) ==
    IF ~subscribers[svc][entryId].has
           \/ Cardinality(subscribers[svc][entryId].sockets) = 0
    THEN {}
    ELSE LET fullData == data
             publicData == stripProtectedFields(data)
         IN {[to |-> k, event |-> "update", svc |-> svc, entryId |-> entryId,
              overtaken |-> FALSE,
              payload |-> IF hasElevatedAccess(svc, sockets[k], entryId)
                          THEN fullData ELSE publicData]
                : k \in {j \in subscribers[svc][entryId].sockets :
                            sockets[j].connected}}

----------------------------------------------------------------------------
(* ServiceRegistry listeners                                               *)

\* Declared operations of a service: name, required level, whether a payload
\* schema is declared.
Methods ==
    {[name |-> "ping", access |-> "Public", schema |-> FALSE],
     [name |-> "list", access |-> "Read", schema |-> FALSE],
     [name |-> "rename", access |-> "Moderate", schema |-> TRUE]}

\* An inbound payload: whether it satisfies the schema, and its id field
Payloads == [valid : BOOLEAN, id : Entries \cup {NoEntry}]

SubscribeLevels == {"Read", "Admin"}

\* Variant of MethodListenerSync that skips the schema validation
MethodListenerSyncNoSchema(svc, method, socket, payload) ==
    IF socket.userId = NoUser /\ method.access # "Public"
    THEN [trace |-> <<>>, next |-> "unauthenticated"]
    ELSE LET passed == <<"auth">>
             access == EnsureAccessSync(svc, method.access, socket, payload.id)
         IN IF access = "ok"
            THEN [trace |-> passed \o <<"access", "handler">>, next |-> "handler"]
            ELSE IF access = "acl"
            THEN [trace |-> passed, next |-> "acl"]
            ELSE [trace |-> passed, next |-> access]

\* registerMethodListener up to its first await that leaves the microtask
\* queue: the stages passed (trace) and where the listener stands.
MethodListenerSync(svc, method, socket, payload) ==
    IF socket.userId = NoUser /\ method.access # "Public"
    THEN [trace |-> <<>>, next |-> "unauthenticated"]
    ELSE IF method.schema /\ ~payload.valid
    THEN [trace |-> <<"auth">>, next |-> "invalid"]
    ELSE LET passed == IF method.schema THEN <<"auth", "schema">>
                       ELSE <<"auth">>
             access == EnsureAccessSync(svc, method.access, socket, payload.id)
         IN IF access = "ok"
            THEN [trace |-> passed \o <<"access", "handler">>, next |-> "handler"]
            ELSE IF access = "acl"
            THEN [trace |-> passed, next |-> "acl"]
            ELSE [trace |-> passed, next |-> access]

\* Variant of MethodReply whose catch block does not call the callback
MethodReplySilentCatch(outcome) ==
    CASE outcome = "unauthenticated" ->
            [success |-> FALSE, code |-> 401, calls |-> 1]
      [] outcome = "invalid" ->
            [success |-> FALSE, code |-> 400, calls |-> 1]
      [] outcome = "ok" ->
            [success |-> TRUE, code |-> 0, calls |-> 1]
      [] OTHER ->
            [success |-> FALSE, code |-> 500, calls |-> 0]

\* The envelope registerMethodListener hands to callback?.() on each path,
\* and how many times it calls it.  code 0: the envelope has no code.
MethodReply(outcome) ==
    CASE outcome = "unauthenticated" ->
            [success |-> FALSE, code |-> 401, calls |-> 1]
      [] outcome = "invalid" ->
            [success |-> FALSE, code |-> 400, calls |-> 1]
      [] outcome = "ok" ->
            [success |-> TRUE, code |-> 0, calls |-> 1]
      [] OTHER ->                       \* catch (error): any thrown Error
            [success |-> FALSE, code |-> 500, calls |-> 1]

\* registerSubscriptionListener
SubscribeReply(outcome) ==
    CASE outcome = "unauthenticated" ->
            [success |-> FALSE, code |-> 401, calls |-> 1]
      [] outcome = "null" ->
            [success |-> FALSE, code |-> 403, calls |-> 1]
      [] outcome = "entity" ->
            [success |-> TRUE, code |-> 0, calls |-> 1]
      [] OTHER ->                       \* catch (error)
            [success |-> FALSE, code |-> 0, calls |-> 1]

\* Variant of UnsubscribeReply that answers as the catch block does
UnsubscribeReplyCatch(outcome) ==
    [success |-> FALSE, code |-> 0, calls |-> 1]

\* registerUnsubscriptionListener
UnsubscribeReply(outcome) ==
    CASE outcome = "ok" -> [success |-> TRUE, code |-> 0, calls |-> 1]
      [] OTHER -> [success |-> FALSE, code |-> 0, calls |-> 1]

\* Variant of subscribe that registers a socket whose access check failed
subscribeSyncOpen(svc, entryId, socket, requiredLevel) ==
    IF socket.userId = NoUser THEN "null"
    ELSE LET s == SubscriptionAccessSync(svc, socket, entryId, requiredLevel)
         IN IF s = "denied" THEN "granted" ELSE s

\* BaseService.subscribe up to its first await that leaves the microtask
\* queue: "null" (returns null), "granted" (registered, findById pending) or
\* "acl" (checkEntryACL pending).
subscribeSync(svc, entryId, socket, requiredLevel) ==
    IF socket.userId = NoUser THEN "null"
    ELSE LET s == SubscriptionAccessSync(svc, socket, entryId, requiredLevel)
         IN IF s = "denied" THEN "null" ELSE s

InFlight == {k \in Sockets : req[k].kind # "none"}

Reply(r, outcome) ==
    CASE r.kind = "method" -> MethodReply(outcome)
      [] r.kind = "subscribe" -> SubscribeReply(outcome)
      [] OTHER -> UnsubscribeReply(outcome)

\* The listener returns: the request leaves the table; acks counts the
\* callback?.(envelope) statements it executed for the request.
Finished(r, trace, outcome, data) ==
    LET reply == Reply(r, outcome)
    IN [kind |-> r.kind, trace |-> trace, acks |-> r.acks + reply.calls,
        success |-> reply.success, code |-> reply.code, data |-> data,
        outcome |-> outcome, swept |-> {}, count |-> 0]

Request(kind, who, svc, entryId, level) ==
    [kind |-> kind, who |-> who, svc |-> svc, entryId |-> entryId,
     level |-> level, pc |-> "none", trace |-> <<>>, acks |-> 0,
     unsub |-> FALSE]

\* subscribe suspended at findById: the continuation reads the service, the
\* entry id and the socket, no longer the required level
AtFind(r) ==
    [r EXCEPT !.pc = "find", !.trace = <<"subscribe", "registered">>,
              !.level = "Read"]

\* the method listener suspended at the handler: the continuation reads
\* nothing of the request but the callback
AtHandler(r, trace) ==
    [r EXCEPT !.pc = "handler", !.trace = trace, !.who = Offline,
              !.svc = "docService", !.entryId = NoEntry, !.level = "Read"]

\* io.use authentication middleware followed by the connection handlers:
\* when authenticate throws, next(Error) refuses the connection; whatever it
\* returns (a userId or undefined) is stored and next() accepts
Connect(k) ==
    /\ ~sockets[k].connected
    /\ req[k].kind = "none"
    /\ \A svc \in Services, e \in Entries :
          k \notin subscribers[svc][e].sockets /\ k \notin rooms[svc][e]
    /\ \E authenticate \in {"throws", "returns"} :
          IF authenticate = "throws"
          THEN UNCHANGED sockets
          ELSE \E id \in ConnectIdentities :
                  sockets' = [sockets EXCEPT ![k] =
                                 [connected |-> TRUE, userId |-> id.userId,
                                  serviceAccess |-> id.serviceAccess]]
    /\ emitted' = [pushes |-> {}, done |-> NoDone]
    /\ UNCHANGED <<subscribers, rooms, db, req, muts>>

\* "disconnect": unsubscribeSocket on every registered service; socket.io has
\* already taken the socket out of its rooms
Disconnect(k) ==
    /\ sockets[k].connected
    /\ sockets' = [sockets EXCEPT ![k] = Offline]
    /\ subscribers' = [svc \in Services |-> unsubscribeSocket(subscribers[svc], k)]
    /\ rooms' = [svc \in Services |-> [e \in Entries |-> rooms[svc][e] \ {k}]]
    /\ emitted' =
         [pushes |-> {},
          done |-> [NoDone EXCEPT
                      !.kind = "disconnect",
                      !.swept = {<<svc, e>> \in Services \X Entries :
                                    k \in subscribers[svc][e].sockets}]]
    /\ UNCHANGED <<db, req, muts>>

\* BaseService.subscribe after access was granted: register, join the room
Register(k, svc, entryId) ==
    /\ subscribers' = [subscribers EXCEPT ![svc] = addSubscriber(@, entryId, k)]
    /\ rooms' = [rooms EXCEPT ![svc][entryId] = @ \cup {k}]

\* `${service}:subscribe`: the listener and BaseService.subscribe up to the
\* first suspension
SubscribeRecv(k, svc, entryId, level) ==
    /\ sockets[k].connected
    /\ req[k].kind = "none"
    /\ Cardinality(InFlight) < MaxInFlight
    /\ LET r == Request("subscribe", sockets[k], svc, entryId, level)
           s == subscribeSync(svc, entryId, sockets[k], level)
       IN IF sockets[k].userId = NoUser
          THEN /\ emitted' = [pushes |-> {},
                              done |-> Finished(r, <<>>, "unauthenticated", <<>>)]
               /\ UNCHANGED <<subscribers, rooms, req>>
          ELSE IF s = "null"
          THEN /\ emitted' = [pushes |-> {},
                              done |-> Finished(r, <<"subscribe">>, "null", <<>>)]
               /\ UNCHANGED <<subscribers, rooms, req>>
          ELSE IF s = "granted"
          THEN /\ Register(k, svc, entryId)
               /\ req' = [req EXCEPT ![k] = AtFind(r)]
               /\ emitted' = [pushes |-> {}, done |-> NoDone]
          ELSE /\ req' = [req EXCEPT ![k] =
                            [r EXCEPT !.pc = "acl", !.trace = <<"subscribe">>]]
               /\ emitted' = [pushes |-> {}, done |-> NoDone]
               /\ UNCHANGED <<subscribers, rooms>>
    /\ UNCHANGED <<sockets, db, muts>>

\* checkEntryACL resumes with what the delegate found (or its rejection)
SubscribeAclDone(k) ==
    /\ req[k].kind = "subscribe"
    /\ req[k].pc = "acl"
    /\ \E found \in {findUnique(req[k].svc, req[k].entryId), FoundThrows} :
          IF checkEntryACL(found, req[k].who.userId, req[k].level)
          THEN /\ Register(k, req[k].svc, req[k].entryId)
               /\ req' = [req EXCEPT ![k] = AtFind(req[k])]
               /\ emitted' = [pushes |-> {}, done |-> NoDone]
          ELSE /\ emitted' = [pushes |-> {},
                              done |-> Finished(req[k], req[k].trace, "null", <<>>)]
               /\ req' = [req EXCEPT ![k] = NoReq]
               /\ UNCHANGED <<subscribers, rooms>>
    /\ UNCHANGED <<sockets, db, muts>>

\* findById resumes: the entity filtered for the subscriber, null, or the
\* delegate's rejection, which subscribe lets through to its caller
SubscribeFindDone(k) ==
    /\ req[k].kind = "subscribe"
    /\ req[k].pc = "find"
    /\ \E lookup \in {"ok", "throws"} :
          LET svc == req[k].svc
              e == req[k].entryId
          IN emitted' =
               [pushes |-> {},
                done |->
                  IF lookup = "throws"
                  THEN Finished(req[k], req[k].trace, "threw", <<>>)
                  ELSE IF ~db[svc][e].exists
                  THEN Finished(req[k], req[k].trace, "null", <<>>)
                  ELSE Finished(req[k], req[k].trace, "entity",
                          filterEntityForSubscriber(svc, EntityOf(svc, e),
                                                    req[k].who, e))]
    /\ req' = [req EXCEPT ![k] = NoReq]
    /\ UNCHANGED <<sockets, subscribers, rooms, db, muts>>

\* `${service}:unsubscribe`: synchronous, not authenticated
UnsubscribeRecv(k, svc, entryId) ==
    /\ sockets[k].connected
    /\ subscribers' = [subscribers EXCEPT ![svc] = unsubscribe(@, entryId, k)]
    /\ rooms' = [rooms EXCEPT ![svc][entryId] = @ \ {k}]
    /\ emitted' =
         [pushes |-> {},
          done |-> [Finished(Request("unsubscribe", sockets[k], svc, entryId,
                                     "Read"),
                             <<"unsubscribe">>, "ok",
                             [unsubscribed |-> TRUE, entryId |-> entryId])
                      EXCEPT !.swept =
                         IF k \in subscribers[svc][entryId].sockets
                         THEN {<<svc, entryId>>} ELSE {}]]
    /\ req' = IF /\ req[k].kind = "subscribe"
                 /\ req[k].svc = svc
                 /\ req[k].entryId = entryId
              THEN [req EXCEPT ![k].unsub = TRUE]
              ELSE req
    /\ UNCHANGED <<sockets, db, muts>>

\* `${service}:${method}`: the listener up to its first suspension
MethodRecv(k, svc, method, payload) ==
    /\ sockets[k].connected
    /\ req[k].kind = "none"
    /\ Cardinality(InFlight) < MaxInFlight
    /\ LET r == Request("method", sockets[k], svc, payload.id, method.access)
           step == MethodListenerSync(svc, method, sockets[k], payload)
       IN IF step.next \in {"acl", "handler"}
          THEN /\ req' = [req EXCEPT ![k] =
                            IF step.next = "handler"
                            THEN AtHandler(r, step.trace)
                            ELSE [r EXCEPT !.pc = "acl", !.trace = step.trace]]
               /\ emitted' = [pushes |-> {}, done |-> NoDone]
          ELSE /\ emitted' = [pushes |-> {},
                              done |-> Finished(r, step.trace, step.next, <<>>)]
               /\ UNCHANGED req
    /\ UNCHANGED <<sockets, subscribers, rooms, db, muts>>

\* ensureAccessForMethod resumes from checkEntryACL; on success the handler
\* is invoked, otherwise the Error reaches the listener's catch
MethodAclDone(k) ==
    /\ req[k].kind = "method"
    /\ req[k].pc = "acl"
    /\ \E found \in {findUnique(req[k].svc, req[k].entryId), FoundThrows} :
          IF checkEntryACL(found, req[k].who.userId, req[k].level)
          THEN /\ req' = [req EXCEPT ![k] =
                            AtHandler(@, @.trace \o <<"access", "handler">>)]
               /\ emitted' = [pushes |-> {}, done |-> NoDone]
          ELSE /\ emitted' = [pushes |-> {},
                              done |-> Finished(req[k], req[k].trace,
                                                "Insufficient permissions", <<>>)]
               /\ req' = [req EXCEPT ![k] = NoReq]
    /\ UNCHANGED <<sockets, subscribers, rooms, db, muts>>

\* the handler's promise settles
MethodHandlerDone(k) ==
    /\ req[k].kind = "method"
    /\ req[k].pc = "handler"
    /\ \E outcome \in {"ok", "handler threw"} :
          emitted' = [pushes |-> {},
                      done |-> Finished(req[k], req[k].trace, outcome, <<>>)]
    /\ req' = [req EXCEPT ![k] = NoReq]
    /\ UNCHANGED <<sockets, subscribers, rooms, db, muts>>

\* ACLs adminSetEntryACL is called with
AclInputs ==
    {<<>>, <<[userId |-> "u1", level |-> "Read"]>>,
     <<[userId |-> "u1", level |-> "Read"], [userId |-> "u2", level |-> "Read"]>>}

\* A call of update / delete / adminSetEntryACL suspended at its delegate call.
\* after: the sockets that, since the call, received the push of a mutation
\* of the same entry that was called later.
Mutation(op, svc, id, title, acl) ==
    [op |-> op, svc |-> svc, id |-> id, title |-> title, acl |-> acl,
     after |-> {}]

\* update / delete / adminSetEntryACL up to `await this.getDelegate()...`;
\* serial: the caller starts a mutation only when none is pending
MutationCall(m, serial) ==
    /\ Len(muts) < MaxMutations
    /\ serial => muts = <<>>
    /\ muts' = Append(muts, m)
    /\ emitted' = [pushes |-> {}, done |-> NoDone]
    /\ UNCHANGED <<sockets, subscribers, rooms, db, req>>

\* The row a successful delegate call leaves behind
Written(m, row) ==
    CASE m.op = "update" -> [row EXCEPT !.title = m.title]
      [] m.op = "delete" -> Absent
      [] OTHER -> [row EXCEPT !.acl = m.acl]

\* Variant of MutationPushes that broadcasts whatever the delegate did
MutationPushesAlways(m, ok, data) ==
    {[x EXCEPT !.overtaken = x.to \in m.after] :
        x \in emitUpdate(m.svc, m.id, data)}

\* try { await delegate...; this.emitUpdate(id, data) } catch { }: the pushes
\* of a mutation whose delegate call resolved (ok) or rejected
MutationPushes(m, ok, data) ==
    IF ok
    THEN {[x EXCEPT !.overtaken = x.to \in m.after] :
             x \in emitUpdate(m.svc, m.id, data)}
    ELSE {}

\* The delegate call of the i-th pending mutation settles.  It rejects when
\* the row does not exist (or has no acl column, for adminSetEntryACL) and
\* may reject for any other reason; the rejection is swallowed into null /
\* false.  On success the result is broadcast by emitUpdate.
MutationDone(i) ==
    /\ i \in DOMAIN muts
    /\ \E resolves \in BOOLEAN :
          LET m == muts[i]
              row == db[m.svc][m.id]
              ok == /\ resolves
                    /\ row.exists
                    /\ m.op = "setACL" => row.hasAcl
              data == IF m.op = "delete" THEN Tombstone(m.id)
                      ELSE RowEntity(m.id, Written(m, row))
              pushes == MutationPushes(m, ok, data)
              reached == {x.to : x \in pushes}
              kept(j) == IF j < i THEN muts[j] ELSE muts[j + 1]
          IN /\ db' = IF ok THEN [db EXCEPT ![m.svc][m.id] = Written(m, row)]
                      ELSE db
             /\ muts' = [j \in 1..(Len(muts) - 1) |->
                           IF j < i /\ muts[j].svc = m.svc /\ muts[j].id = m.id
                           THEN [muts[j] EXCEPT !.after = @ \cup reached]
                           ELSE kept(j)]
             /\ emitted' =
                  [pushes |-> pushes,
                   done |-> [NoDone EXCEPT
                               !.kind = m.op,
                               !.success = ok,
                               !.outcome =
                                  IF m.op = "delete"
                                  THEN (IF ok THEN "true" ELSE "false")
                                  ELSE (IF ok THEN "entity" ELSE "null")]]
    /\ UNCHANGED <<sockets, subscribers, rooms, req>>

\* Variant of adminUnsubscribeAll that notifies the subscribers and keeps
\* their set
adminUnsubscribeAllNotifyOnly(svc, entryId) ==
    /\ LET subs == subscribers[svc][entryId]
           count == IF subs.has THEN Cardinality(subs.sockets) ELSE 0
       IN emitted' =
            [pushes |-> {[to |-> k, event |-> "unsubscribed", svc |-> svc,
                          entryId |-> entryId, overtaken |-> FALSE,
                          payload |-> ("reason" :> "admin_action")]
                            : k \in {j \in subs.sockets : sockets[j].connected}},
             done |-> [NoDone EXCEPT !.kind = "unsubscribeAll",
                                     !.success = TRUE,
                                     !.count = count]]
    /\ UNCHANGED <<sockets, subscribers, rooms, db, req, muts>>

\* adminUnsubscribeAll: notify every socket of the entry's set, delete the
\* set, return the count; no socket leaves its room
adminUnsubscribeAll(svc, entryId) ==
    /\ LET subs == subscribers[svc][entryId]
           count == IF subs.has THEN Cardinality(subs.sockets) ELSE 0
       IN /\ emitted' =
               [pushes |-> {[to |-> k, event |-> "unsubscribed", svc |-> svc,
                             entryId |-> entryId, overtaken |-> FALSE,
                             payload |-> ("reason" :> "admin_action")]
                               : k \in {j \in subs.sockets : sockets[j].connected}},
                done |-> [NoDone EXCEPT !.kind = "unsubscribeAll",
                                        !.success = TRUE,
                                        !.count = count]]
          /\ subscribers' = [subscribers EXCEPT ![svc][entryId] = NoSet]
    /\ UNCHANGED <<sockets, rooms, db, req, muts>>

NextServer ==
    \/ \E k \in Sockets : Connect(k)
    \/ \E k \in Sockets : Disconnect(k)
    \/ \E k \in Sockets, svc \in Services, e \in Entries,
          level \in SubscribeLevels : SubscribeRecv(k, svc, e, level)
    \/ \E k \in Sockets : SubscribeAclDone(k)
    \/ \E k \in Sockets : SubscribeFindDone(k)
    \/ \E k \in Sockets, svc \in Services, e \in Entries :
          UnsubscribeRecv(k, svc, e)
    \/ \E k \in Sockets, svc \in Services, m \in Methods, p \in Payloads :
          MethodRecv(k, svc, m, p)
    \/ \E k \in Sockets : MethodAclDone(k)
    \/ \E k \in Sockets : MethodHandlerDone(k)

\* The subscription listeners alone
NextSubscribe ==
    \/ \E k \in Sockets : Connect(k)
    \/ \E k \in Sockets : Disconnect(k)
    \/ \E k \in Sockets, svc \in Services, e \in Entries,
          level \in SubscribeLevels : SubscribeRecv(k, svc, e, level)
    \/ \E k \in Sockets : SubscribeAclDone(k)
    \/ \E k \in Sockets : SubscribeFindDone(k)
    \/ \E k \in Sockets, svc \in Services, e \in Entries :
          UnsubscribeRecv(k, svc, e)

\* The method listener alone
NextMethods ==
    \/ \E k \in Sockets : Connect(k)
    \/ \E k \in Sockets : Disconnect(k)
    \/ \E k \in Sockets, svc \in Services, m \in Methods, p \in Payloads :
          MethodRecv(k, svc, m, p)
    \/ \E k \in Sockets : MethodAclDone(k)
    \/ \E k \in Sockets : MethodHandlerDone(k)

\* The rows of the seeded store
Targets == {<<"docService", "d1">>, <<"userService", "u1">>}

\* Subscriptions and mutations of the seeded rows, one mutation at a time,
\* without the method listener
NextPush ==
    \/ \E k \in Sockets : Connect(k)
    \/ \E k \in Sockets : Disconnect(k)
    \/ \E k \in Sockets, x \in Targets : SubscribeRecv(k, x[1], x[2], "Read")
    \/ \E k \in Sockets : SubscribeAclDone(k)
    \/ \E k \in Sockets : SubscribeFindDone(k)
    \/ \E k \in Sockets, x \in Targets : UnsubscribeRecv(k, x[1], x[2])
    \/ \E x \in Targets, t \in Titles :
          MutationCall(Mutation("update", x[1], x[2], t, <<>>), TRUE)
    \/ \E x \in Targets :
          MutationCall(Mutation("delete", x[1], x[2], "t0", <<>>), TRUE)
    \/ \E i \in 1..MaxMutations : MutationDone(i)

\* Subscriptions of the seeded rows with the administrative removal of all
\* subscribers, and updates of document d1
NextAdmin ==
    \/ \E k \in Sockets : Connect(k)
    \/ \E k \in Sockets : Disconnect(k)
    \/ \E k \in Sockets, x \in Targets : SubscribeRecv(k, x[1], x[2], "Read")
    \/ \E k \in Sockets : SubscribeAclDone(k)
    \/ \E k \in Sockets : SubscribeFindDone(k)
    \/ \E k \in Sockets, x \in Targets : UnsubscribeRecv(k, x[1], x[2])
    \/ \E x \in Targets : adminUnsubscribeAll(x[1], x[2])
    \/ \E t \in Titles :
          MutationCall(Mutation("update", "docService", "d1", t, <<>>), TRUE)
    \/ \E i \in 1..MaxMutations : MutationDone(i)

\* Subscriptions to document d1 and updates of it called while earlier ones
\* are still awaiting the delegate
NextOrder ==
    \/ \E k \in Sockets : Connect(k)
    \/ \E k \in Sockets : Disconnect(k)
    \/ \E k \in Sockets : SubscribeRecv(k, "docService", "d1", "Read")
    \/ \E k \in Sockets : SubscribeAclDone(k)
    \/ \E k \in Sockets : SubscribeFindDone(k)
    \/ \E t \in Titles :
          MutationCall(Mutation("update", "docService", "d1", t, <<>>), FALSE)
    \/ \E i \in 1..MaxMutations : MutationDone(i)

\* Subscriptions to document d1 while its ACL is replaced by adminSetEntryACL
\* and its title is updated, one mutation at a time
NextAcl ==
    \/ \E k \in Sockets : Connect(k)
    \/ \E k \in Sockets : Disconnect(k)
    \/ \E k \in Sockets : SubscribeRecv(k, "docService", "d1", "Read")
    \/ \E k \in Sockets : SubscribeAclDone(k)
    \/ \E k \in Sockets : SubscribeFindDone(k)
    \/ \E acl \in AclInputs :
          MutationCall(Mutation("setACL", "docService", "d1", "t0", acl), TRUE)
    \/ \E t \in Titles :
          MutationCall(Mutation("update", "docService", "d1", t, <<>>), TRUE)
    \/ \E i \in 1..MaxMutations : MutationDone(i)

\* requiredLevel values a client can put in the subscribe payload: the cast
\* of payload.requiredLevel is not checked at run time
PayloadLevels == {"Public", "Read", "Unknown"}

\* ACLs of the ACE type, whose level is any AccessLevel
LevelAcls ==
    {<<>>, <<[userId |-> "u1", level |-> "Public"]>>,
     <<[userId |-> "u1", level |-> "Read"]>>}

\* Subscriptions to document d1 with the required level chosen by the
\* client, while adminSetEntryACL replaces the ACL
NextLevel ==
    \/ \E k \in Sockets : Connect(k)
    \/ \E k \in Sockets : Disconnect(k)
    \/ \E k \in Sockets, level \in PayloadLevels :
          SubscribeRecv(k, "docService", "d1", level)
    \/ \E k \in Sockets : SubscribeAclDone(k)
    \/ \E k \in Sockets : SubscribeFindDone(k)
    \/ \E acl \in LevelAcls :
          MutationCall(Mutation("setACL", "docService", "d1", "t0", acl), TRUE)
    \/ \E i \in 1..MaxMutations : MutationDone(i)

----------------------------------------------------------------------------
(* Client subscription registry (QuickdrawProvider) and the               *)
(* useSubscription effect                                                  *)

Keys == {"docService:d1", "userService:u1"}
Observers == 1..NumObservers
NoKey == "none"

\* Map<string, SubscriptionEntry>: per key, whether the entry is in the map,
\* its refCount and whether a cleanup is attached
NoEntrySlot == [has |-> FALSE, refCount |-> 0, cleanup |-> FALSE]

\* Variant of acquire that reports every acquisition as new
acquireAlwaysNew(map, key) ==
    IF map[key].has
    THEN [map |-> [map EXCEPT ![key].refCount = @ + 1], isNew |-> TRUE]
    ELSE [map |-> [map EXCEPT ![key] =
                      [has |-> TRUE, refCount |-> 1, cleanup |-> FALSE]],
          isNew |-> TRUE]

\* Variant of release that runs the cleanup on every release of a present key
releaseEager(map, key) ==
    IF ~map[key].has
    THEN [map |-> map, ret |-> FALSE, cleanups |-> 0]
    ELSE IF map[key].refCount - 1 <= 0
    THEN [map |-> [map EXCEPT ![key] = NoEntrySlot], ret |-> TRUE,
          cleanups |-> IF map[key].cleanup THEN 1 ELSE 0]
    ELSE [map |-> [map EXCEPT ![key].refCount = @ - 1], ret |-> FALSE,
          cleanups |-> IF map[key].cleanup THEN 1 ELSE 0]

\* acquire(key): the map afterwards and isNew
acquire(map, key) ==
    IF map[key].has
    THEN [map |-> [map EXCEPT ![key].refCount = @ + 1], isNew |-> FALSE]
    ELSE [map |-> [map EXCEPT ![key] =
                      [has |-> TRUE, refCount |-> 1, cleanup |-> FALSE]],
          isNew |-> TRUE]

\* release(key): the map afterwards, the value returned and how many times
\* the entry's cleanup ran
release(map, key) ==
    IF ~map[key].has
    THEN [map |-> map, ret |-> FALSE, cleanups |-> 0]
    ELSE IF map[key].refCount - 1 <= 0
    THEN [map |-> [map EXCEPT ![key] = NoEntrySlot], ret |-> TRUE,
          cleanups |-> IF map[key].cleanup THEN 1 ELSE 0]
    ELSE [map |-> [map EXCEPT ![key].refCount = @ - 1], ret |-> FALSE,
          cleanups |-> 0]

setCleanup(map, key) ==
    IF map[key].has THEN [map EXCEPT ![key].cleanup = TRUE] ELSE map

\* clear(): the keys whose cleanup runs; the map is emptied
clearCleanups(map) == {key \in Keys : map[key].has /\ map[key].cleanup}

Holders(key) == {o \in Observers : observers[o] = key}

Bump(counter, key) == [counter EXCEPT ![key] = @ + 1]

\* queryClient.getQueryData(queryKey) with no data, or null
NoData == [null |-> TRUE]

\* entryId of a subscription key `${serviceName}:${entryId}`
KeyId == [key \in Keys |-> IF key = "docService:d1" THEN "d1" ELSE "u1"]

NoFields == [f \in {} |-> f]
TitleParts == {NoFields} \cup {("title" :> t) : t \in Titles}
EmailParts == {NoFields, ("email" :> "mail")}
DeletedParts == {NoFields, ("deleted" :> TRUE), ("deleted" :> FALSE)}

\* updateData: Partial<TData> arriving on `${service}:update:${entryId}`
PushData(key) ==
    {("id" :> KeyId[key]) @@ t @@ e @@ d :
        t \in TitleParts, e \in EmailParts, d \in DeletedParts}

\* response of the subscribe acknowledgment: the snapshot (as projected for
\* the subscriber) or an error
AckResponses(key) ==
    {[success |-> TRUE, data |-> ("id" :> KeyId[key]) @@ ("title" :> t) @@ e] :
        t \in Titles, e \in EmailParts}
    \cup {[success |-> FALSE, data |-> NoData]}

\* asAny.deleted is truthy
Deleted(updateData) == "deleted" \in DOMAIN updateData /\ updateData["deleted"]

\* Variant of handleUpdate that merges a tombstone like any other push
handleUpdateMergeAll(oldData, updateData) ==
    IF oldData = NoData THEN updateData ELSE updateData @@ oldData

\* Variant of handleUpdate that replaces the cached value by the push
handleUpdateReplace(oldData, updateData) ==
    IF Deleted(updateData) THEN NoData ELSE updateData

\* handleUpdate: the cached value after a push; { ...oldData, ...updateData }
\* takes a field from updateData when both have it
handleUpdate(oldData, updateData) ==
    IF Deleted(updateData)
    THEN NoData
    ELSE IF oldData = NoData
    THEN updateData
    ELSE updateData @@ oldData

\* no observer: the component that created the entry is gone
NoObserver == 0

\* useState(false) in every hook; no entry, no acknowledgment received
NoHook ==
    [isSubscribed |-> [o \in Observers |-> FALSE],
     owner |-> [key \in Keys |-> NoObserver],
     acked |-> [key \in Keys |-> "none"]]

\* clear(): each cleanup that runs calls the setIsSubscribed(false) of the
\* observer that created the entry; the entries are gone
hookAfterClear(h, ran) ==
    [isSubscribed |-> [o \in Observers |->
                          IF \E key \in ran : h.owner[key] = o
                          THEN FALSE ELSE h.isSubscribed[o]],
     owner |-> [key \in Keys |-> NoObserver],
     acked |-> [key \in Keys |-> "none"]]

ClientInit ==
    /\ subHook = NoHook
    /\ subscriptions = [key \in Keys |-> NoEntrySlot]
    /\ observers = [o \in Observers |-> NoKey]
    /\ wire = {}
    /\ listeners = {}
    /\ isConnected = FALSE
    /\ socketRef = FALSE
    /\ cleared = FALSE
    /\ sent = [subscribe |-> [key \in Keys |-> 0],
               unsubscribe |-> [key \in Keys |-> 0]]
    /\ acks = [key \in Keys |-> 0]
    /\ cache = [key \in Keys |-> NoData]
    /\ lastRet = [op |-> "none", key |-> NoKey, ret |-> FALSE, cleanups |-> 0]

\* socket "connect": setIsConnected(true)
TransportConnect ==
    /\ socketRef
    /\ ~isConnected
    /\ isConnected' = TRUE
    /\ wire' = {}
    /\ UNCHANGED <<subscriptions, observers, listeners, socketRef, cleared, sent,
                   acks, cache, lastRet, subHook>>

\* Variant of TransportDisconnect that leaves the registry as it is
TransportDisconnectKeep ==
    /\ isConnected
    /\ isConnected' = FALSE
    /\ wire' = {}
    /\ lastRet' = [op |-> "clear", key |-> NoKey, ret |-> FALSE, cleanups |-> 0]
    /\ cleared' = TRUE
    /\ acks' = [key \in Keys |-> 0]
    /\ UNCHANGED <<subscriptions, listeners, sent, observers, socketRef, cache,
                   subHook>>

\* socket "disconnect": setIsConnected(false), subscriptionRegistry.clear();
\* every cleanup that runs removes its listener and emits an unsubscribe;
\* acknowledgments still outstanding on the closed connection never arrive
TransportDisconnect ==
    /\ isConnected
    /\ isConnected' = FALSE
    /\ LET ran == clearCleanups(subscriptions)
       IN /\ wire' = {[event |-> "unsubscribe", key |-> key] : key \in ran}
          /\ listeners' = listeners \ ran
          /\ sent' = [sent EXCEPT !.unsubscribe =
                        [key \in Keys |-> IF key \in ran THEN @[key] + 1 ELSE @[key]]]
          /\ lastRet' = [op |-> "clear", key |-> NoKey, ret |-> FALSE,
                         cleanups |-> Cardinality(ran)]
    /\ subscriptions' = [key \in Keys |-> NoEntrySlot]
    /\ subHook' = hookAfterClear(subHook, clearCleanups(subscriptions))
    /\ cleared' = TRUE
    /\ acks' = [key \in Keys |-> 0]
    /\ UNCHANGED <<observers, socketRef, cache>>

\* connect(token): nothing when a socket exists; otherwise clear() on the old
\* registry, a new registry, a new socket with its listeners
ProviderConnect ==
    /\ ~socketRef
    /\ socketRef' = TRUE
    /\ LET ran == clearCleanups(subscriptions)
       IN /\ wire' = {[event |-> "unsubscribe", key |-> key] : key \in ran}
          /\ listeners' = listeners \ ran
          /\ sent' = [sent EXCEPT !.unsubscribe =
                        [key \in Keys |-> IF key \in ran THEN @[key] + 1 ELSE @[key]]]
          /\ lastRet' = [op |-> "clear", key |-> NoKey, ret |-> FALSE,
                         cleanups |-> Cardinality(ran)]
    /\ subscriptions' = [key \in Keys |-> NoEntrySlot]
    /\ subHook' = hookAfterClear(subHook, clearCleanups(subscriptions))
    /\ cleared' = (cleared \/ \E o \in Observers : observers[o] # NoKey)
    /\ UNCHANGED <<observers, isConnected, acks, cache>>

\* disconnect(): nothing without a socket; otherwise clear(), the socket is
\* closed and dropped (its "disconnect" listener runs clear() on the emptied
\* registry), setIsConnected(false)
ProviderDisconnect ==
    /\ socketRef
    /\ socketRef' = FALSE
    /\ isConnected' = FALSE
    /\ LET ran == clearCleanups(subscriptions)
       IN /\ wire' = {[event |-> "unsubscribe", key |-> key] : key \in ran}
          /\ listeners' = listeners \ ran
          /\ sent' = [sent EXCEPT !.unsubscribe =
                        [key \in Keys |-> IF key \in ran THEN @[key] + 1 ELSE @[key]]]
          /\ lastRet' = [op |-> "clear", key |-> NoKey, ret |-> FALSE,
                         cleanups |-> Cardinality(ran)]
    /\ subscriptions' = [key \in Keys |-> NoEntrySlot]
    /\ subHook' = hookAfterClear(subHook, clearCleanups(subscriptions))
    /\ cleared' = (cleared \/ \E o \in Observers : observers[o] # NoKey)
    /\ acks' = [key \in Keys |-> 0]
    /\ UNCHANGED <<observers, cache>>

\* The subscription effect of one observer runs (socket connected, enabled):
\* acquire; only a new entry registers the update listener, emits
\* `${service}:subscribe` and attaches the cleanup
Mount(o, key) ==
    /\ isConnected
    /\ observers[o] = NoKey
    /\ sent.subscribe[key] < MaxPeriods
    /\ LET a == acquire(subscriptions, key)
       IN IF a.isNew
          THEN /\ subscriptions' = setCleanup(a.map, key)
               /\ listeners' = listeners \cup {key}
               /\ wire' = {[event |-> "subscribe", key |-> key]}
               /\ sent' = [sent EXCEPT !.subscribe = Bump(@, key)]
               /\ acks' = Bump(acks, key)
               /\ subHook' = [subHook EXCEPT !.owner[key] = o, !.acked[key] = "none"]
          ELSE /\ subscriptions' = a.map
               /\ wire' = {}
               /\ subHook' = [subHook EXCEPT !.isSubscribed[o] = TRUE]
               /\ UNCHANGED <<listeners, sent, acks>>
    /\ observers' = [observers EXCEPT ![o] = key]
    /\ lastRet' = [op |-> "acquire", key |-> key, ret |-> FALSE, cleanups |-> 0]
    /\ UNCHANGED <<isConnected, socketRef, cleared, cache>>

\* The effect's destructor runs (unmount, or a dependency changed): release
Unmount(o) ==
    /\ observers[o] # NoKey
    /\ LET key == observers[o]
           r == release(subscriptions, key)
       IN /\ subscriptions' = r.map
          /\ IF r.cleanups > 0
             THEN /\ listeners' = listeners \ {key}
                  /\ wire' = {[event |-> "unsubscribe", key |-> key]}
                  /\ sent' = [sent EXCEPT !.unsubscribe =
                                [@ EXCEPT ![key] = @ + r.cleanups]]
             ELSE /\ wire' = {}
                  /\ UNCHANGED <<listeners, sent>>
          /\ lastRet' = [op |-> "release", key |-> key, ret |-> r.ret,
                         cleanups |-> r.cleanups]
          /\ subHook' =
               [isSubscribed |->
                  [p \in Observers |->
                     IF p = o \/ (r.cleanups > 0 /\ p = subHook.owner[key])
                     THEN FALSE ELSE subHook.isSubscribed[p]],
                owner |-> IF r.ret \/ subHook.owner[key] = o
                          THEN [subHook.owner EXCEPT ![key] = NoObserver]
                          ELSE subHook.owner,
                acked |-> IF r.ret
                          THEN [subHook.acked EXCEPT ![key] = "none"]
                          ELSE subHook.acked]
    /\ observers' = [observers EXCEPT ![o] = NoKey]
    /\ UNCHANGED <<isConnected, socketRef, cleared, acks, cache>>

\* The acknowledgment of a subscribe request arrives: a successful response
\* with data is written to the cache
ReceiveAck(key, response) ==
    /\ isConnected
    /\ acks[key] > 0
    /\ acks' = [acks EXCEPT ![key] = @ - 1]
    /\ cache' = IF response.success /\ response.data # NoData
                THEN [cache EXCEPT ![key] = response.data]
                ELSE cache
    /\ wire' = {}
    /\ lastRet' = [op |-> "ack", key |-> key, ret |-> response.success,
                   cleanups |-> 0]
    /\ LET current == acks[key] = 1 /\ subscriptions[key].has
           target == IF current THEN subHook.owner[key] ELSE NoObserver
       IN subHook' =
            [subHook EXCEPT
               !.isSubscribed =
                  [p \in Observers |->
                     IF p # target THEN @[p]
                     ELSE IF response.success /\ response.data # NoData
                     THEN TRUE
                     ELSE IF ~response.success THEN FALSE ELSE @[p]],
               !.acked[key] =
                  IF ~current THEN @
                  ELSE IF response.success THEN "ok" ELSE "failed"]
    /\ UNCHANGED <<subscriptions, observers, listeners, isConnected, socketRef,
                   cleared, sent>>

\* A push on `${service}:update:${entryId}` arrives while the listener is
\* registered: handleUpdate (lastRet.ret records whether a value was cached)
ReceivePush(key, updateData) ==
    /\ isConnected
    /\ key \in listeners
    /\ cache' = [cache EXCEPT ![key] = handleUpdate(@, updateData)]
    /\ wire' = {}
    /\ lastRet' = [op |-> IF Deleted(updateData) THEN "tombstone" ELSE "push",
                   key |-> key, ret |-> cache[key] # NoData, cleanups |-> 0]
    /\ UNCHANGED <<subscriptions, observers, listeners, isConnected, socketRef,
                   cleared, sent, acks, subHook>>

NextClient ==
    \/ ProviderConnect
    \/ ProviderDisconnect
    \/ TransportConnect
    \/ TransportDisconnect
    \/ \E o \in Observers, key \in Keys : Mount(o, key)
    \/ \E o \in Observers : Unmount(o)

\* The key whose cache the observers of a run watch
CacheKey == "docService:d1"

NextCache ==
    \/ ProviderConnect
    \/ TransportConnect
    \/ TransportDisconnect
    \/ \E o \in Observers : Mount(o, CacheKey)
    \/ \E o \in Observers : Unmount(o)
    \/ \E response \in AckResponses(CacheKey) : ReceiveAck(CacheKey, response)
    \/ \E updateData \in PushData(CacheKey) : ReceivePush(CacheKey, updateData)

----------------------------------------------------------------------------
(* Method hooks: useService, useServiceMethod, useServiceQuery             *)

Hooks == {"useService", "useServiceMethod", "useServiceQuery"}

\* A request the hook emitted: its number, and how far the server is with it:
\* "sent" (the handler has not finished), "ok" / "fail" (the handler has
\* finished and its acknowledgment is on the way)
NoRequest == [id |-> 0, stage |-> "none"]

\* retry: useService defaults to false, useServiceQuery to 1; useServiceMethod
\* has no retry
DefaultRetry(hook) == IF hook = "useServiceQuery" THEN 1 ELSE 0

\* The hook before its first call.  loading, error, data, successes are what
\* the component sees (successes counts the onSuccess calls); cur is the
\* request whose timer runs, late the requests whose timer has fired; by is
\* what emitted the latest request: "call" (mutate, execute, or the query
\* observer fetching by itself), "refetch" (the refetch function the query
\* hook returns), "retry"
NoCall(hook) ==
    [hook |-> hook, enabled |-> TRUE, n |-> 0, pc |-> "idle",
     retry |-> DefaultRetry(hook), loading |-> FALSE, error |-> "none",
     data |-> 0, successes |-> 0, cur |-> NoRequest, late |-> {},
     by |-> "none"]

Shown(c) == <<c.loading, c.error, c.data, c.successes>>

registryVars == <<subscriptions, observers, listeners, isConnected, socketRef,
                  cleared, sent, acks, cache, lastRet, subHook>>

\* Variant of Call in which the query runs its queryFn and emits whatever
\* the enabled option and the connection are
CallUnguarded ==
    /\ call.pc = "idle"
    /\ call.n < MaxCalls
    /\ IF call.hook # "useServiceQuery" /\ ~(socketRef /\ isConnected)
       THEN /\ call' = [call EXCEPT !.loading = FALSE,
                                    !.error = "Socket not connected",
                                    !.data = IF call.hook = "useService"
                                             THEN 0 ELSE @]
            /\ wire' = {}
       ELSE /\ call' = [call EXCEPT
                          !.n = @ + 1,
                          !.pc = "pending",
                          !.retry = DefaultRetry(call.hook),
                          !.loading = TRUE,
                          !.error = IF call.hook = "useServiceMethod"
                                    THEN "none" ELSE @,
                          !.data = IF call.hook = "useService" THEN 0 ELSE @,
                          !.cur = [id |-> call.n + 1, stage |-> "sent"],
                          !.by = "call"]
            /\ wire' = {[event |-> "method", key |-> NoKey]}
    /\ UNCHANGED registryVars

\* mutate / execute / queryFn of the hook runs.  Without a connected socket
\* useService throws "Socket not connected" into onError, useServiceMethod
\* sets the error and returns null; the query of useServiceQuery is disabled
\* then and its queryFn is not run.  Otherwise the request is emitted and the
\* timer starts.
Call ==
    /\ call.pc = "idle"
    /\ call.n < MaxCalls
    /\ call.hook = "useServiceQuery" => call.enabled /\ socketRef /\ isConnected
    /\ IF ~(socketRef /\ isConnected)
       THEN /\ call' = [call EXCEPT !.loading = FALSE,
                                    !.error = "Socket not connected",
                                    !.data = IF call.hook = "useService"
                                             THEN 0 ELSE @]
            /\ wire' = {}
       ELSE /\ call' = [call EXCEPT
                          !.n = @ + 1,
                          !.pc = "pending",
                          !.retry = DefaultRetry(call.hook),
                          !.loading = TRUE,
                          !.error = IF call.hook = "useServiceMethod"
                                    THEN "none" ELSE @,
                          !.data = IF call.hook = "useService" THEN 0 ELSE @,
                          !.cur = [id |-> call.n + 1, stage |-> "sent"],
                          !.by = "call"]
            /\ wire' = {[event |-> "method", key |-> NoKey]}
    /\ UNCHANGED registryVars

\* refetch() of useServiceQuery: query.refetch() runs the queryFn whatever
\* the enabled option is; the queryFn throws "Socket not connected" before
\* emitting when there is no connected socket
Refetch ==
    /\ call.hook = "useServiceQuery"
    /\ call.pc = "idle"
    /\ call.n < MaxCalls
    /\ IF ~(socketRef /\ isConnected)
       THEN /\ call' = [call EXCEPT !.loading = FALSE,
                                    !.error = "Socket not connected"]
            /\ wire' = {}
       ELSE /\ call' = [call EXCEPT
                          !.n = @ + 1,
                          !.pc = "pending",
                          !.retry = DefaultRetry(call.hook),
                          !.loading = TRUE,
                          !.cur = [id |-> call.n + 1, stage |-> "sent"],
                          !.by = "refetch"]
            /\ wire' = {[event |-> "method", key |-> NoKey]}
    /\ UNCHANGED registryVars

\* The server-side handler of a request finishes and the listener sends the
\* acknowledgment; the server knows nothing of the client's timer
HandlerCompletes(id, success) ==
    /\ LET stage == IF success THEN "ok" ELSE "fail"
       IN \/ /\ call.cur = [id |-> id, stage |-> "sent"]
             /\ call' = [call EXCEPT !.cur.stage = stage]
          \/ /\ [id |-> id, stage |-> "sent"] \in call.late
             /\ call' = [call EXCEPT !.late =
                            (@ \ {[id |-> id, stage |-> "sent"]})
                               \cup {[id |-> id, stage |-> stage]}]
    /\ wire' = {}
    /\ UNCHANGED registryVars

\* setTimeout fires before the acknowledgment arrived: the promise rejects
\* with "Request timeout" (useService, useServiceQuery; the query retries
\* while it has retries left), or useServiceMethod sets the error and
\* resolves null.  Nothing is sent to the server.
Timeout ==
    /\ call.pc = "pending"
    /\ IF call.retry > 0 /\ call.n < MaxCalls /\ socketRef /\ isConnected
       THEN /\ call' = [call EXCEPT
                          !.n = @ + 1,
                          !.retry = @ - 1,
                          !.cur = [id |-> call.n + 1, stage |-> "sent"],
                          !.late = @ \cup {call.cur},
                          !.by = "retry"]
            /\ wire' = {[event |-> "method", key |-> NoKey]}
       ELSE /\ call' = [call EXCEPT
                          !.pc = "idle",
                          !.loading = FALSE,
                          !.error = "Request timeout",
                          !.cur = NoRequest,
                          !.late = @ \cup {call.cur}]
            /\ wire' = {}
    /\ UNCHANGED registryVars

\* The acknowledgment of the request whose timer runs arrives
AckArrives ==
    /\ isConnected
    /\ call.pc = "pending"
    /\ call.cur.stage \in {"ok", "fail"}
    /\ call' = IF call.cur.stage = "ok"
               THEN [call EXCEPT !.pc = "idle", !.loading = FALSE,
                                 !.error = "none", !.data = call.cur.id,
                                 !.successes = @ + 1, !.cur = NoRequest]
               ELSE [call EXCEPT !.pc = "idle", !.loading = FALSE,
                                 !.error = "failed", !.cur = NoRequest]
    /\ wire' = {}
    /\ UNCHANGED registryVars

\* The acknowledgment of a request whose timer has fired arrives.  In
\* useService and useServiceQuery the callback settles a promise that is
\* already rejected, which does nothing.  In useServiceMethod the callback
\* runs setLoading(false) and, by the response, setError(null), setData,
\* onSuccess, or setError(response.error), onError.
LateAckArrives(r) ==
    /\ isConnected
    /\ r \in call.late
    /\ r.stage \in {"ok", "fail"}
    /\ call' = IF call.hook # "useServiceMethod"
               THEN [call EXCEPT !.late = @ \ {r}]
               ELSE IF r.stage = "ok"
               THEN [call EXCEPT !.late = @ \ {r}, !.loading = FALSE,
                                 !.error = "none", !.data = r.id,
                                 !.successes = @ + 1]
               ELSE [call EXCEPT !.late = @ \ {r}, !.loading = FALSE,
                                 !.error = "failed"]
    /\ wire' = {}
    /\ UNCHANGED registryVars

\* The enabled option of useServiceQuery changes with a render
SetEnabled(b) ==
    /\ call.hook = "useServiceQuery"
    /\ call.enabled # b
    /\ call' = [call EXCEPT !.enabled = b]
    /\ wire' = {}
    /\ UNCHANGED registryVars

\* Acknowledgments of requests sent on a connection that closed never arrive
Dropped(c) ==
    [c EXCEPT !.late = {},
              !.cur = IF @.stage \in {"ok", "fail"}
                      THEN [@ EXCEPT !.stage = "sent"] ELSE @]

Requests == [id : 1..MaxCalls, stage : {"sent", "ok", "fail"}]

NextCall ==
    \/ ProviderConnect /\ UNCHANGED call
    \/ TransportConnect /\ UNCHANGED call
    \/ TransportDisconnect /\ call' = Dropped(call)
    \/ Call
    \/ Refetch
    \/ \E id \in 1..MaxCalls, success \in BOOLEAN : HandlerCompletes(id, success)
    \/ Timeout
    \/ AckArrives
    \/ \E r \in Requests : LateAckArrives(r)
    \/ \E b \in BOOLEAN : SetEnabled(b)

----------------------------------------------------------------------------
(* Rate limiter (createRateLimiter, applyRateLimitMiddleware)              *)

\* RateLimitOptions of the limiter
windowMs == 2
maxRequests == 2
excludeEvents == {"ping"}

\* keyGenerator defaults to socket.id
LimitKeys == {"k1", "k2"}
EventNames == {"docService:updateTitle", "ping", "$internal"}

NoWindow == [has |-> FALSE, count |-> 0, resetAt |-> 0]

NoLimited ==
    [op |-> "none", key |-> "k1", checked |-> FALSE, allowed |-> FALSE,
     passed |-> FALSE, acks |-> 0, success |-> FALSE, code |-> 0,
     errors |-> 0]

LimitInit ==
    /\ now = 0
    /\ entries = [key \in LimitKeys |-> NoWindow]
    /\ trues = [key \in LimitKeys |-> [t \in 0..MaxNow |-> 0]]
    /\ limited = NoLimited

\* Variant of check that compares with > : one more call per window
checkOneMore(map, key, t) ==
    LET entry == map[key]
    IN IF ~entry.has \/ entry.resetAt <= t
       THEN [ret |-> TRUE,
             map |-> [map EXCEPT ![key] =
                        [has |-> TRUE, count |-> 1, resetAt |-> t + windowMs]]]
       ELSE IF entry.count > maxRequests
       THEN [ret |-> FALSE, map |-> map]
       ELSE [ret |-> TRUE, map |-> [map EXCEPT ![key].count = @ + 1]]

\* check(key) at time t: what it returns and the map it leaves
check(map, key, t) ==
    LET entry == map[key]
    IN IF ~entry.has \/ entry.resetAt <= t
       THEN [ret |-> TRUE,
             map |-> [map EXCEPT ![key] =
                        [has |-> TRUE, count |-> 1, resetAt |-> t + windowMs]]]
       ELSE IF entry.count >= maxRequests
       THEN [ret |-> FALSE, map |-> map]
       ELSE [ret |-> TRUE, map |-> [map EXCEPT ![key].count = @ + 1]]

\* Date.now() advances
Tick ==
    /\ now < MaxNow
    /\ now' = now + 1
    /\ limited' = NoLimited
    /\ UNCHANGED <<entries, trues>>

\* the setInterval callback: entries whose window is over are deleted
CleanupInterval ==
    /\ entries' = [key \in LimitKeys |->
                      IF entries[key].has /\ entries[key].resetAt <= now
                      THEN NoWindow ELSE entries[key]]
    /\ limited' = [NoLimited EXCEPT !.op = "cleanup"]
    /\ UNCHANGED <<now, trues>>

\* socket.use middleware for one incoming packet of socket key: excluded and
\* internal events pass; the others pass when check allows and otherwise are
\* dropped (next is not called), onRateLimitExceeded emits "error", and the
\* packet's callback, when it has one, is called with the 429 envelope
Event(key, eventName, hasCallback) ==
    IF eventName \in excludeEvents \/ eventName = "$internal"
    THEN /\ limited' = [NoLimited EXCEPT !.op = "event", !.key = key,
                                         !.passed = TRUE]
         /\ UNCHANGED <<now, entries, trues>>
    ELSE LET r == check(entries, key, now)
         IN /\ entries' = r.map
            /\ trues' = IF r.ret THEN [trues EXCEPT ![key][now] = @ + 1]
                        ELSE trues
            /\ limited' =
                  IF r.ret
                  THEN [NoLimited EXCEPT !.op = "event", !.key = key,
                                         !.checked = TRUE, !.allowed = TRUE,
                                         !.passed = TRUE]
                  ELSE [NoLimited EXCEPT !.op = "event", !.key = key,
                                         !.checked = TRUE,
                                         !.acks = IF hasCallback THEN 1 ELSE 0,
                                         !.code = 429,
                                         !.errors = 1]
            /\ UNCHANGED now

NextLimit ==
    \/ Tick
    \/ CleanupInterval
    \/ \E key \in LimitKeys, eventName \in EventNames, hasCallback \in BOOLEAN :
          Event(key, eventName, hasCallback)

----------------------------------------------------------------------------
(* Inputs bound to an entity property (useSocketInput)                     *)

CommitModes == {"change", "blur", "debounce"}
\* values of the property (a switch)
InputValues == {0, 1}
\* pendingValueRef.current = null, debounceTimerRef.current = null
NoValue == 2
NoTimer == [set |-> FALSE, isDirty |-> FALSE, localValue |-> 0, server |-> 0]

\* The hook after its first render.  server is the property in the state
\* prop; timer is the pending setTimeout with what the commit function it
\* will call closed over (isDirty, localValue, formattedServerValue of the
\* render whose onLocalChange set it); calls are the update calls whose
\* promise is pending, updates the values update was called with, in order;
\* last is what the latest step did
NoInput(mode) ==
    [commitMode |-> mode, server |-> 0, localValue |-> 0, isDirty |-> FALSE,
     inFlight |-> FALSE, pending |-> NoValue, timer |-> NoTimer,
     calls |-> <<>>, updates |-> <<>>, changes |-> 0, last |-> "none"]

\* the effect that copies the server value while the input is neither dirty
\* nor in flight
Synced(i) ==
    IF ~i.isDirty /\ ~i.inFlight THEN [i EXCEPT !.localValue = i.server] ELSE i

\* commit() as closed over by a render in which isDirty, localValue and the
\* server value were as given: returns at once when that isDirty is false,
\* otherwise calls update with pendingValueRef.current ?? localValue
commit(i, isDirty, localValue, server) ==
    IF ~isDirty THEN i
    ELSE LET valueToCommit == IF i.pending # NoValue THEN i.pending
                              ELSE localValue
         IN [i EXCEPT !.inFlight = TRUE,
                      !.calls = Append(@, [from |-> "commit", server |-> server]),
                      !.updates = Append(@, valueToCommit)]

\* onLocalChange(newValue) of the latest render
onLocalChange(newValue) ==
    /\ input.changes < MaxChanges
    /\ LET i == [input EXCEPT !.localValue = newValue, !.isDirty = TRUE,
                              !.pending = newValue, !.changes = @ + 1,
                              !.last = "change"]
       IN input' =
            CASE input.commitMode = "change" ->
                   [i EXCEPT !.inFlight = TRUE,
                             !.calls = Append(@, [from |-> "change",
                                                  server |-> input.server]),
                             !.updates = Append(@, newValue)]
              [] input.commitMode = "debounce" ->
                   [i EXCEPT !.timer = [set |-> TRUE,
                                        isDirty |-> input.isDirty,
                                        localValue |-> input.localValue,
                                        server |-> input.server]]
              [] OTHER -> i

\* debounceMs have passed since the latest change: the timer calls the commit
\* function it holds
TimerFires ==
    /\ input.timer.set
    /\ input' = [commit(input, input.timer.isDirty, input.timer.localValue,
                        input.timer.server)
                   EXCEPT !.timer = NoTimer, !.last = "timer"]

\* onBlur of the latest render
onBlur ==
    /\ input.commitMode = "blur"
    /\ input.isDirty
    /\ Len(input.updates) < MaxChanges
    /\ input' = [commit(input, input.isDirty, input.localValue, input.server)
                   EXCEPT !.last = "blur"]

Without(seq, n) == [j \in 1..(Len(seq) - 1) |-> IF j < n THEN seq[j] ELSE seq[j + 1]]

\* the promise of an update call settles
UpdateSettles(n, ok) ==
    /\ n \in 1..Len(input.calls)
    /\ LET c == input.calls[n]
           i == [input EXCEPT !.calls = Without(@, n), !.inFlight = FALSE,
                              !.last = IF ok THEN "resolved" ELSE "rejected"]
       IN input' = Synced(
            IF ok
            THEN [i EXCEPT !.isDirty = FALSE, !.pending = NoValue]
            ELSE IF c.from = "commit"
            THEN [i EXCEPT !.localValue = c.server, !.isDirty = FALSE]
            ELSE i)

\* the state prop changes (an update push of the entity arrived)
StateChanges(v) ==
    /\ input.server # v
    /\ input' = Synced([input EXCEPT !.server = v, !.last = "state"])

NextInput ==
    \/ \E v \in InputValues : onLocalChange(v)
    \/ TimerFires
    \/ onBlur
    \/ \E n \in 1..MaxChanges, ok \in BOOLEAN : UpdateSettles(n, ok)
    \/ \E v \in InputValues : StateChanges(v)

\* the rate limiter and the input while other components run
SideInit == LimitInit /\ input = NoInput("debounce")

InitInput ==
    /\ AccessIdle /\ ServerInit /\ ClientInit /\ call = NoCall("useService")
    /\ LimitInit
    /\ \E mode \in CommitModes : input = NoInput(mode)

----------------------------------------------------------------------------
(* Specifications                                                          *)

InitAccess ==
    /\ acIn \in AccessInputs
    /\ acOut = NoOutcome
    /\ ServerInit
    /\ ClientInit
    /\ call = NoCall("useService")
    /\ SideInit

NextAccess ==
    /\ \/ ApplyCheckSubscriptionAccess
       \/ ApplyEnsureAccessForMethod
    /\ UNCHANGED serverVars
    /\ UNCHANGED clientVars
    /\ UNCHANGED call
    /\ UNCHANGED sideVars

SpecAccess == InitAccess /\ [][NextAccess]_vars

InitServer ==
    AccessIdle /\ ServerInit /\ ClientInit /\ call = NoCall("useService")
       /\ SideInit

SpecServer ==
    InitServer /\ [][NextServer /\ UNCHANGED accessVars /\ UNCHANGED clientVars
                  /\ UNCHANGED call /\ UNCHANGED sideVars]_vars

SpecSubscribe ==
    InitServer /\ [][NextSubscribe /\ UNCHANGED accessVars /\ UNCHANGED clientVars
                  /\ UNCHANGED call /\ UNCHANGED sideVars]_vars

SpecMethods ==
    InitServer /\ [][NextMethods /\ UNCHANGED accessVars /\ UNCHANGED clientVars
                  /\ UNCHANGED call /\ UNCHANGED sideVars]_vars

SpecClient ==
    InitServer /\ [][NextClient /\ UNCHANGED accessVars /\ UNCHANGED serverVars
                  /\ UNCHANGED call /\ UNCHANGED sideVars]_vars

SpecPush ==
    InitServer /\ [][NextPush /\ UNCHANGED accessVars /\ UNCHANGED clientVars
                  /\ UNCHANGED call /\ UNCHANGED sideVars]_vars

SpecAdmin ==
    InitServer /\ [][NextAdmin /\ UNCHANGED accessVars /\ UNCHANGED clientVars
                  /\ UNCHANGED call /\ UNCHANGED sideVars]_vars

SpecOrder ==
    InitServer /\ [][NextOrder /\ UNCHANGED accessVars /\ UNCHANGED clientVars
                  /\ UNCHANGED call /\ UNCHANGED sideVars]_vars

SpecAcl ==
    InitServer /\ [][NextAcl /\ UNCHANGED accessVars /\ UNCHANGED clientVars
                  /\ UNCHANGED call /\ UNCHANGED sideVars]_vars

SpecLevel ==
    InitServer /\ [][NextLevel /\ UNCHANGED accessVars /\ UNCHANGED clientVars
                  /\ UNCHANGED call /\ UNCHANGED sideVars]_vars

InitCall ==
    /\ AccessIdle /\ ServerInit /\ ClientInit
    /\ \E hook \in Hooks, enabled \in BOOLEAN :
          /\ hook # "useServiceQuery" => enabled
          /\ call = [NoCall(hook) EXCEPT !.enabled = enabled]
    /\ SideInit

SpecCall ==
    InitCall /\ [][NextCall /\ UNCHANGED accessVars /\ UNCHANGED serverVars
               /\ UNCHANGED sideVars]_vars

SpecLimit ==
    InitServer /\ [][NextLimit /\ UNCHANGED accessVars /\ UNCHANGED serverVars
                  /\ UNCHANGED clientVars /\ UNCHANGED call
                  /\ UNCHANGED input]_vars

SpecInput ==
    InitInput /\ [][NextInput /\ UNCHANGED accessVars /\ UNCHANGED serverVars
                    /\ UNCHANGED clientVars /\ UNCHANGED call
                    /\ UNCHANGED limitVars]_vars

SpecCache ==
    InitServer /\ [][NextCache /\ UNCHANGED accessVars /\ UNCHANGED serverVars
                  /\ UNCHANGED call /\ UNCHANGED sideVars]_vars

----------------------------------------------------------------------------
(* Access evaluator properties                                             *)

\* C5: checkSubscriptionAccess grants exactly when the socket's service-level
\* grant for the service is at least the required level, or checkAccess
\* accepts, or the service has entry ACLs and the entity's ACL holds some
\* entry for the user whose level is at least the required level; without
\* entry ACLs the entity's ACL is not consulted.
C5_ThreePaths ==
    acOut.op = "checkSubscriptionAccess" =>
        LET svc == acIn.svc
            socket == acIn.socket
            required == acIn.requiredLevel
            rank == [l \in Levels |->
                        CASE l = "Public" -> 0 [] l = "Read" -> 1
                          [] l = "Moderate" -> 2 [] l = "Admin" -> 3]
            byService == /\ svc \in DOMAIN socket.serviceAccess
                         /\ rank[socket.serviceAccess[svc]] >= rank[required]
            byCustom == checkAccess(svc, socket.userId, acIn.entryId, required)
            byEntry == /\ HasEntryACL(svc)
                       /\ acIn.found.kind = "entity"
                       /\ acIn.found.hasAcl
                       /\ \E i \in DOMAIN acIn.found.acl :
                             /\ acIn.found.acl[i].userId = socket.userId
                             /\ rank[acIn.found.acl[i].level] >= rank[required]
        IN /\ (acOut.result = "granted") <=> (byService \/ byCustom \/ byEntry)
           /\ ~HasEntryACL(svc) => ~acOut.aclConsulted

\* C23: an evaluation whose required level is Public passes for every peer:
\* ensureAccessForMethod returns without throwing, and
\* checkSubscriptionAccess, the check subscribe makes, grants.
C23_PublicPasses ==
    acIn.requiredLevel = "Public" =>
        /\ acOut.op = "ensureAccessForMethod" => acOut.result = "ok"
        /\ acOut.op = "checkSubscriptionAccess" => acOut.result = "granted"

\* C24: for a required level other than Public, ensureAccessForMethod lets
\* the call pass exactly when the service-level grant suffices, or checkAccess
\* accepts the entry, or the entry-level ACL check succeeds; when none of the
\* three does it throws, with or without an entry id.
C24_ThreeChecksOrDeny ==
    (acOut.op = "ensureAccessForMethod" /\ acIn.requiredLevel # "Public") =>
        LET svc == acIn.svc
            socket == acIn.socket
            byService == hasServiceAccess(svc, socket, acIn.requiredLevel)
            byCustom == /\ acIn.entryId # NoEntry
                        /\ socket.userId # NoUser
                        /\ checkAccess(svc, socket.userId, acIn.entryId,
                                       acIn.requiredLevel)
            byEntry == /\ acIn.entryId # NoEntry
                       /\ socket.userId # NoUser
                       /\ HasEntryACL(svc)
                       /\ checkEntryACL(acIn.found, socket.userId,
                                        acIn.requiredLevel)
        IN (acOut.result = "ok") <=> (byService \/ byCustom \/ byEntry)

\* C27: when the lookup of the entry-level ACL check finds no entity, finds
\* an entity without an ACL, or throws, the check yields false: an evaluation
\* that consulted the ACL ends in the ordinary denial of its caller (denied
\* for subscribe, "Insufficient permissions" for a method), never in an error
\* of the lookup.
C27_LookupFailureDenies ==
    (acIn.found.kind \in {"null", "throws"} \/ ~acIn.found.hasAcl) =>
        /\ \A u \in Users, level \in Levels :
              checkEntryACL(acIn.found, u, level) = FALSE
        /\ (acOut.op = "checkSubscriptionAccess" /\ acOut.aclConsulted)
              => acOut.result = "denied"
        /\ (acOut.op = "ensureAccessForMethod" /\ acOut.aclConsulted)
              => acOut.result = "Insufficient permissions"

\* A subscribe check on document d1 that had to consult the ACL, and whose
\* lookup threw, has ended in a denial
C27_Witness ==
    /\ acOut = [op |-> "checkSubscriptionAccess", result |-> "denied",
                aclConsulted |-> TRUE]
    /\ acIn.found = FoundThrows
    /\ acIn.entryId = "d1"

\* C6: an entry-scoped call requiring Moderate by a user with no service-level
\* grant for the service, not accepted by checkAccess, whose ACL entries are
\* all at Read, throws "Insufficient permissions", and the same call with the
\* same entity passes once the socket carries service-level Admin; whenever
\* the service-level grant suffices the call passes and the ACL is not read.
C6_Precedence ==
    acOut.op = "ensureAccessForMethod" =>
        LET svc == acIn.svc
            socket == acIn.socket
            found == acIn.found
            onlyAclRead ==
                /\ socket.userId \in Users
                /\ acIn.entryId # NoEntry
                /\ svc \notin DOMAIN socket.serviceAccess
                /\ ~checkAccess(svc, socket.userId, acIn.entryId, acIn.requiredLevel)
                /\ HasEntryACL(svc)
                /\ found.kind = "entity" /\ found.hasAcl
                /\ \E i \in DOMAIN found.acl : found.acl[i].userId = socket.userId
                /\ \A i \in DOMAIN found.acl :
                      found.acl[i].userId = socket.userId => found.acl[i].level = "Read"
            promoted == [socket EXCEPT !.serviceAccess = (svc :> "Admin") @@ @]
        IN /\ (onlyAclRead /\ acIn.requiredLevel = "Moderate") =>
                /\ acOut.result = "Insufficient permissions"
                /\ acOut.aclConsulted
                /\ ensureAccessForMethod(svc, "Moderate", promoted,
                                         acIn.entryId, found) = "ok"
           /\ (/\ socket.userId \in Users
               /\ svc \in DOMAIN socket.serviceAccess
               /\ (socket.serviceAccess[svc] = "Admin"
                     \/ socket.serviceAccess[svc] = acIn.requiredLevel)) =>
                /\ acOut.result = "ok"
                /\ ~acOut.aclConsulted

\* A Moderate call on document d1 by u2, whose only grant is the ACL entry
\* (u2, Read), has been rejected after the ACL was read.
C6_Witness ==
    /\ acOut = [op |-> "ensureAccessForMethod",
                result |-> "Insufficient permissions", aclConsulted |-> TRUE]
    /\ acIn = [svc |-> "docService",
               socket |-> [userId |-> "u2", serviceAccess |-> <<>>],
               entryId |-> "d1", requiredLevel |-> "Moderate",
               found |-> FoundEntity(TRUE, <<[userId |-> "u2", level |-> "Read"]>>)]

----------------------------------------------------------------------------
(* Server properties                                                       *)

\* C1: a step in which a connected socket becomes disconnected leaves that
\* socket in no subscriber set of any service; every set it was in has lost
\* exactly that socket, and a set emptied by this is no longer in the map.
C1_DisconnectSweep ==
    [][\A k \in Sockets :
          (sockets[k].connected /\ ~sockets'[k].connected) =>
              \A svc \in Services, e \in Entries :
                 /\ k \notin subscribers'[svc][e].sockets
                 /\ subscribers'[svc][e].sockets = subscribers[svc][e].sockets \ {k}
                 /\ subscribers'[svc][e].has =
                       (subscribers[svc][e].has /\ subscribers'[svc][e].sockets # {})]_vars

\* The disconnect handler has just swept a socket out of three subscriber
\* sets, one of which another socket keeps alive.
C1_Witness ==
    /\ emitted.done.kind = "disconnect"
    /\ Cardinality(emitted.done.swept) = 3
    /\ \E x \in emitted.done.swept : subscribers[x[1]][x[2]].has
    /\ \E x \in emitted.done.swept : ~subscribers[x[1]][x[2]].has
    /\ \A k \in Sockets : ~sockets[k].connected =>
          \A svc \in Services, e \in Entries : k \notin subscribers[svc][e].sockets

\* C2: every update push delivered to a socket that is neither the entity's
\* own user nor a holder of service-level Admin carries no protected field,
\* and a push to an elevated socket is the whole entity; the same holds for
\* the snapshot a subscribe request returns.
C2_Redaction ==
    [][LET Protected == {"email", "serviceAccess"}
           elevated(svc, socket, e) ==
               \/ socket.userId = e
               \/ /\ svc \in DOMAIN socket.serviceAccess
                  /\ socket.serviceAccess[svc] = "Admin"
       IN /\ \A m \in {x \in emitted'.pushes : x.event = "update"} :
                IF "deleted" \in DOMAIN m.payload
                THEN DOMAIN m.payload \cap Protected = {}
                ELSE IF elevated(m.svc, sockets'[m.to], m.entryId)
                THEN m.payload = EntityOf(m.svc, m.entryId)'
                ELSE /\ DOMAIN m.payload \cap Protected = {}
                     /\ DOMAIN m.payload = DOMAIN EntityOf(m.svc, m.entryId)' \ Protected
          /\ \A k \in Sockets :
                (/\ req[k].kind = "subscribe" /\ req[k].pc = "find"
                 /\ emitted'.done.outcome = "entity"
                 /\ SubscribeFindDone(k)) =>
                    IF elevated(req[k].svc, req[k].who, req[k].entryId)
                    THEN emitted'.done.data = EntityOf(req[k].svc, req[k].entryId)
                    ELSE DOMAIN emitted'.done.data \cap Protected = {}]_vars

\* One broadcast has reached an elevated socket with the protected fields and
\* another socket without them.
C2_Witness ==
    \E m, n \in emitted.pushes :
        /\ m.svc = n.svc /\ m.entryId = n.entryId
        /\ {"email", "serviceAccess"} \subseteq DOMAIN m.payload
        /\ DOMAIN n.payload \cap {"email", "serviceAccess"} = {}
        /\ sockets[n.to].userId # NoUser

\* C7: a subscribe message from a socket without userId, or from a socket
\* with no sufficient service-level grant that checkAccess rejects and that
\* the entity's ACL (if the service has one) gives no sufficient entry,
\* changes no subscriber set and no room, and is answered by one failure
\* envelope.
C7_DeniedSubscribe ==
    [][LET rank == [l \in Levels |->
                      CASE l = "Public" -> 0 [] l = "Read" -> 1
                        [] l = "Moderate" -> 2 [] l = "Admin" -> 3]
           noSyncPath(svc, socket, e, level) ==
               /\ ~(svc \in DOMAIN socket.serviceAccess
                     /\ rank[socket.serviceAccess[svc]] >= rank[level])
               /\ ~checkAccess(svc, socket.userId, e, level)
           noAclPath(svc, socket, e, level) ==
               \/ ~HasEntryACL(svc)
               \/ ~db[svc][e].exists
               \/ ~db[svc][e].hasAcl
               \/ \A i \in DOMAIN db[svc][e].acl :
                     db[svc][e].acl[i].userId = socket.userId =>
                        rank[db[svc][e].acl[i].level] < rank[level]
           refused ==
               /\ UNCHANGED <<subscribers, rooms>>
               /\ emitted'.done.kind = "subscribe"
               /\ ~emitted'.done.success
               /\ emitted'.done.acks = 1
               /\ "registered" \notin {emitted'.done.trace[i] :
                                         i \in DOMAIN emitted'.done.trace}
       IN /\ \A k \in Sockets, svc \in Services, e \in Entries,
                level \in SubscribeLevels :
                (/\ sockets[k].connected /\ req[k].kind = "none"
                 /\ \/ sockets[k].userId = NoUser
                    \/ /\ noSyncPath(svc, sockets[k], e, level)
                       /\ ~HasEntryACL(svc)
                 /\ SubscribeRecv(k, svc, e, level)) => refused
          /\ \A k \in Sockets :
                (/\ req[k].kind = "subscribe" /\ req[k].pc = "acl"
                 /\ noSyncPath(req[k].svc, req[k].who, req[k].entryId, req[k].level)
                 /\ noAclPath(req[k].svc, req[k].who, req[k].entryId, req[k].level)
                 /\ SubscribeAclDone(k))
                    => refused]_vars

\* An authenticated socket has just been refused with the 403 envelope, and
\* no subscriber set holds anything.
C7_Witness ==
    /\ emitted.done.kind = "subscribe"
    /\ emitted.done.outcome = "null"
    /\ emitted.done.trace = <<"subscribe">>
    /\ ~emitted.done.success /\ emitted.done.code = 403
    /\ \A svc \in Services, e \in Entries : ~subscribers[svc][e].has
    /\ \A svc \in Services, e \in Entries : rooms[svc][e] = {}
    /\ \E k \in Sockets : sockets[k].connected /\ sockets[k].userId # NoUser

\* C8: the method handler is invoked only after the authentication check,
\* the schema validation (when the method declares a schema) and
\* ensureAccessForMethod have passed, in that order; a call without userId to
\* a method that is not Public is answered with code 401, and an invalid
\* payload for a method with a schema with code 400, both without a handler
\* invocation.
C8_ListenerOrder ==
    [][LET ran(t) == "handler" \in {t[i] : i \in DOMAIN t}
           full(method) == IF method.schema
                           THEN <<"auth", "schema", "access", "handler">>
                           ELSE <<"auth", "access", "handler">>
           prefix(method) == IF method.schema THEN <<"auth", "schema">>
                             ELSE <<"auth">>
       IN /\ \A k \in Sockets, svc \in Services, m \in Methods, p \in Payloads :
                (/\ sockets[k].connected /\ req[k].kind = "none"
                 /\ (req'[k].kind = "method" \/ emitted'.done.kind = "method")
                 /\ MethodRecv(k, svc, m, p)) =>
                    LET t == IF req'[k].kind = "method" THEN req'[k].trace
                             ELSE emitted'.done.trace
                    IN /\ ran(t) => t = full(m)
                       /\ (~ran(t) /\ req'[k].kind = "method") => t = prefix(m)
                       /\ (sockets[k].userId = NoUser /\ m.access # "Public") =>
                             /\ req'[k].kind = "none"
                             /\ emitted'.done.code = 401
                             /\ ~emitted'.done.success
                             /\ ~ran(emitted'.done.trace)
                       /\ (/\ ~(sockets[k].userId = NoUser /\ m.access # "Public")
                           /\ m.schema /\ ~p.valid) =>
                             /\ req'[k].kind = "none"
                             /\ emitted'.done.code = 400
                             /\ ~emitted'.done.success
                             /\ ~ran(emitted'.done.trace)
          /\ \A k \in Sockets :
                (/\ req[k].kind = "method" /\ req[k].pc = "acl"
                 /\ req'[k].kind = "method"
                 /\ MethodAclDone(k)) =>
                    req'[k].trace = req[k].trace \o <<"access", "handler">>
          /\ \A k \in Sockets :
                (/\ req[k].kind = "method" /\ req[k].pc = "acl"
                 /\ req'[k].kind = "none"
                 /\ MethodAclDone(k)) =>
                    ~ran(emitted'.done.trace)]_vars

\* A call to the method with a schema has run its handler after all three
\* checks and has been answered with success.
C8_Witness ==
    /\ emitted.done.kind = "method"
    /\ emitted.done.trace = <<"auth", "schema", "access", "handler">>
    /\ emitted.done.success
    /\ emitted.done.acks = 1

\* C9: a method call that ensureAccessForMethod rejects with "Insufficient
\* permissions" does not reach the handler and is answered by a failure
\* envelope with code 403.
C9_PermissionDenied403 ==
    (emitted.done.kind = "method"
        /\ emitted.done.outcome = "Insufficient permissions") =>
            /\ ~emitted.done.success
            /\ "handler" \notin {emitted.done.trace[i] : i \in DOMAIN emitted.done.trace}
            /\ emitted.done.code = 403

\* C10: a listener invocation that has returned has called its callback
\* exactly once, on every path, and one that is suspended has not called it
\* yet; an exception thrown by the handler ends in a failure envelope with
\* code 500.
C10_OneAck ==
    /\ emitted.done.kind \in {"method", "subscribe", "unsubscribe"} =>
          emitted.done.acks = 1
    /\ \A k \in Sockets : req[k].acks = 0
    /\ (emitted.done.kind = "method" /\ emitted.done.outcome = "handler threw") =>
          /\ ~emitted.done.success
          /\ emitted.done.code = 500

\* The handler has thrown and the caller has received one failure envelope.
C10_Witness ==
    /\ emitted.done.kind = "method"
    /\ emitted.done.outcome = "handler threw"
    /\ emitted.done.acks = 1
    /\ emitted.done.code = 500
    /\ "handler" \in {emitted.done.trace[i] : i \in DOMAIN emitted.done.trace}

\* C25: a subscribe or an unsubscribe request of a connection without userId
\* is answered with the authentication error (not success, code 401) and the
\* service's subscribe / unsubscribe is not called for it.
C25_BothAuthenticated ==
    [][\A k \in Sockets, svc \in Services, e \in Entries :
          (sockets[k].connected /\ sockets[k].userId = NoUser)
            => /\ \A level \in SubscribeLevels :
                    SubscribeRecv(k, svc, e, level)
                      => /\ ~emitted'.done.success
                         /\ emitted'.done.code = 401
                         /\ emitted'.done.trace = <<>>
               /\ UnsubscribeRecv(k, svc, e)
                    => /\ ~emitted'.done.success
                       /\ emitted'.done.code = 401
                       /\ emitted'.done.trace = <<>>]_vars

C28_AuthInfoOnConnect ==
    [][\A k \in Sockets :
          (~sockets[k].connected /\ sockets'[k].connected)
             => [to |-> k, event |-> "auth:info",
                 userId |-> sockets'[k].userId,
                 serviceAccess |-> sockets'[k].serviceAccess]
                   \in emitted'.pushes]_vars

\* C29: a connection for which authenticate gave no userId is rejected: no
\* connected socket is without userId, so no subscribe, unsubscribe or method
\* request of such a peer reaches a listener.
C29_NoIdentityRejected ==
    /\ [](\A k \in Sockets : sockets[k].connected => sockets[k].userId # NoUser)
    /\ [][\A k \in Sockets, svc \in Services :
            sockets[k].userId = NoUser
               => /\ \A e \in Entries, level \in SubscribeLevels :
                        ~SubscribeRecv(k, svc, e, level)
                  /\ \A e \in Entries : ~UnsubscribeRecv(k, svc, e)
                  /\ \A m \in Methods, p \in Payloads :
                        ~MethodRecv(k, svc, m, p)]_vars

\* C33: when a subscribe call returns null, at whichever of its steps, the
\* peer is afterwards neither in the entry's subscriber set nor in its room.
C33_NullNotRegistered ==
    [][\A k \in Sockets :
          ( /\ req[k].kind = "subscribe"
            /\ SubscribeAclDone(k) \/ SubscribeFindDone(k)
            /\ req'[k] = NoReq
            /\ emitted'.done.outcome = "null")
             => /\ k \notin subscribers'[req[k].svc][req[k].entryId].sockets
                /\ k \notin rooms'[req[k].svc][req[k].entryId]]_vars

\* C34: once the disconnect handler of a peer has run and none of its
\* subscribe calls is still suspended, the peer is in no subscriber set.
C34_DisconnectedRemoved ==
    \A k \in Sockets :
        (~sockets[k].connected /\ req[k].kind = "none")
           => \A svc \in Services, e \in Entries :
                 k \notin subscribers[svc][e].sockets

\* C35: when a peer's unsubscribe for an entry was handled after its
\* subscribe for that entry arrived, the peer is not in the entry's subscriber
\* set once the subscribe handler has completed too.
C35_UnsubscribeAfterSubscribe ==
    [][\A k \in Sockets :
          ( /\ req[k].kind = "subscribe"
            /\ req[k].unsub
            /\ sockets[k].connected
            /\ req'[k] = NoReq)
             => k \notin subscribers'[req[k].svc][req[k].entryId].sockets]_vars

\* C36: whenever no listener invocation and no mutation is in flight, a
\* connected peer is in the room of an entry exactly when it is in the
\* entry's subscriber set.
C36_RoomsAgree ==
    (InFlight = {} /\ muts = <<>>)
       => \A k \in Sockets, svc \in Services, e \in Entries :
             sockets[k].connected
                => (k \in rooms[svc][e] <=> k \in subscribers[svc][e].sockets)

\* C15: an unsubscribe request for a pair (entry, peer) that is not
\* subscribed is answered with success, without an error, and leaves every
\* subscriber set as it was; in every state, applying unsubscribe a second
\* time to the same pair gives the registry the first application gave.
C15_UnsubscribeIdempotent ==
    /\ [](\A svc \in Services, e \in Entries, k \in Sockets :
            LET once == unsubscribe(subscribers[svc], e, k)
            IN unsubscribe(once, e, k) = once)
    /\ [][\A k \in Sockets, svc \in Services, e \in Entries :
            (/\ sockets[k].connected
             /\ k \notin subscribers[svc][e].sockets
             /\ UnsubscribeRecv(k, svc, e))
               => /\ subscribers' = subscribers
                  /\ emitted'.done.success
                  /\ emitted'.done.acks = 1]_vars

\* An unsubscribe for entry d1 by a socket that was not subscribed to it has
\* just returned, while the sets of d1 hold other sockets
C15_Witness ==
    /\ emitted.done.kind = "unsubscribe"
    /\ emitted.done.swept = {}
    /\ emitted.done.success
    /\ emitted.done.data.entryId = "d1"
    /\ \A svc \in Services : subscribers[svc]["d1"].has

C16_NoEmptySet ==
    \A svc \in Services, e \in Entries :
        /\ subscribers[svc][e].has => subscribers[svc][e].sockets # {}
        /\ ~subscribers[svc][e].has => subscribers[svc][e].sockets = {}

\* The last subscriber of document d1 has just unsubscribed and the key is
\* gone, while another entry still has its set
C16_Witness ==
    /\ emitted.done.kind = "unsubscribe"
    /\ emitted.done.swept = {<<"docService", "d1">>}
    /\ ~subscribers["docService"]["d1"].has
    /\ subscribers["userService"]["u1"].has

----------------------------------------------------------------------------
(* Mutation and broadcast properties                                       *)

\* C11: when the delegate call of update(id, patch) resolves, every connected
\* socket that is in id's subscriber set at that moment gets exactly one
\* update push for id carrying the updated entity, whole for the entity's own
\* user and for holders of service-level Admin and without the protected
\* fields for the others; when the delegate call of delete(id) resolves, each
\* of them gets exactly one push carrying {id, deleted: true} and delete
\* returns true.
C11_Broadcast ==
    [][\A i \in 1..MaxMutations :
          (/\ i \in DOMAIN muts
           /\ muts[i].op \in {"update", "delete"}
           /\ emitted'.done.success
           /\ MutationDone(i)) =>
              LET m == muts[i]
                  members == {k \in subscribers[m.svc][m.id].sockets :
                                 sockets[k].connected}
                  elevated(k) ==
                      \/ sockets[k].userId = m.id
                      \/ /\ m.svc \in DOMAIN sockets[k].serviceAccess
                         /\ sockets[k].serviceAccess[m.svc] = "Admin"
                  entity == RowEntity(m.id, db'[m.svc][m.id])
                  to(k) == {x \in emitted'.pushes : x.to = k}
              IN /\ {x.to : x \in emitted'.pushes} = members
                 /\ \A k \in members : Cardinality(to(k)) = 1
                 /\ \A x \in emitted'.pushes :
                       /\ x.event = "update" /\ x.svc = m.svc /\ x.entryId = m.id
                       /\ IF m.op = "delete"
                          THEN /\ DOMAIN x.payload = {"id", "deleted"}
                               /\ x.payload["id"] = m.id
                               /\ x.payload["deleted"] = TRUE
                          ELSE /\ x.payload["title"] = m.title
                               /\ DOMAIN x.payload =
                                    IF elevated(x.to) THEN DOMAIN entity
                                    ELSE DOMAIN entity \ {"email", "serviceAccess"}
                               /\ \A f \in DOMAIN x.payload :
                                     x.payload[f] = entity[f]
                 /\ m.op = "delete" =>
                       /\ emitted'.done.outcome = "true"
                       /\ ~db'[m.svc][m.id].exists
                 /\ m.op = "update" => emitted'.done.outcome = "entity"]_vars

\* delete has returned true and both sockets have received the tombstone.
C11_Witness ==
    /\ emitted.done.kind = "delete"
    /\ emitted.done.outcome = "true"
    /\ Cardinality(emitted.pushes) = 2
    /\ \A x \in emitted.pushes : "deleted" \in DOMAIN x.payload

\* C12: an update or delete whose delegate call rejects returns null
\* (update) or false (delete), emits no push and leaves the store as it was.
C12_DelegateFailure ==
    [][(emitted'.done.kind \in {"update", "delete"} /\ ~emitted'.done.success) =>
          /\ emitted'.pushes = {}
          /\ db' = db
          /\ emitted'.done.outcome =
                (IF emitted'.done.kind = "update" THEN "null" ELSE "false")]_vars

\* delete has returned false while both seeded rows exist and both have a
\* connected subscriber.
C12_Witness ==
    /\ emitted.done.kind = "delete"
    /\ emitted.done.outcome = "false"
    /\ emitted.pushes = {}
    /\ \A x \in Targets :
          /\ db[x[1]][x[2]].exists
          /\ \E k \in subscribers[x[1]][x[2]].sockets : sockets[k].connected

\* C17: for one entry id, pushes reach a subscriber in the order in which
\* the mutations were called: no socket receives the push of a mutation after
\* it has received the push of a mutation of the same entry that was called
\* later.
C17_InvocationOrder ==
    \A x \in emitted.pushes : x.event = "update" => ~x.overtaken

\* C19: a subscribe that has to consult the entry's ACL is decided on the
\* ACL the store holds when the lookup is answered: the socket is registered
\* only if that ACL grants its user the level, and is answered null, with the
\* registry unchanged, if it does not.  A registered socket without elevated
\* access is returned the entity without its protected fields, and a
\* successful update is pushed to every connected socket of the set.
C19_AclAtSubscribe ==
    /\ [][\A k \in Sockets :
            (req[k].kind = "subscribe" /\ req[k].pc = "acl"
               /\ SubscribeAclDone(k))
               => LET row == db[req[k].svc][req[k].entryId]
                      stored == IF row.exists
                                THEN FoundEntity(row.hasAcl, row.acl)
                                ELSE FoundNull
                      grants == checkEntryACL(stored, req[k].who.userId,
                                              req[k].level)
                      set == subscribers[req[k].svc][req[k].entryId].sockets
                      set2 == subscribers'[req[k].svc][req[k].entryId].sockets
                  IN /\ req'[k].pc = "find" => grants /\ set2 = set \cup {k}
                     /\ ~grants => /\ emitted'.done.outcome = "null"
                                   /\ subscribers' = subscribers
                                   /\ req'[k] = NoReq]_vars
    /\ [][\A k \in Sockets :
            (req[k].kind = "subscribe" /\ req[k].pc = "find"
               /\ SubscribeFindDone(k) /\ emitted'.done.outcome = "entity"
               /\ ~hasElevatedAccess(req[k].svc, req[k].who, req[k].entryId))
               => /\ DOMAIN emitted'.done.data \cap getProtectedFields = {}
                  /\ emitted'.done.data["title"]
                       = db[req[k].svc][req[k].entryId].title]_vars
    /\ [][(emitted'.done.kind = "update" /\ emitted'.done.success)
            => \A k \in subscribers["docService"]["d1"].sockets :
                  sockets[k].connected
                    => \E m \in emitted'.pushes :
                          /\ m.to = k /\ m.event = "update"
                          /\ m.payload["title"] = db'["docService"]["d1"].title]_vars

\* A socket of user u1, who has no service-level grant and is not in the
\* seeded ACL of d1, is in d1's set after adminSetEntryACL stored an entry
\* for u1, and has just been pushed an update without the protected fields
C19_Witness ==
    /\ emitted.done.kind = "update"
    /\ \E i \in DOMAIN db["docService"]["d1"].acl :
          db["docService"]["d1"].acl[i] = [userId |-> "u1", level |-> "Read"]
    /\ \E k \in subscribers["docService"]["d1"].sockets :
          /\ sockets[k] = [connected |-> TRUE, userId |-> "u1",
                           serviceAccess |-> <<>>]
          /\ \E m \in emitted.pushes :
                /\ m.to = k
                /\ m.payload["title"] = "t1"
                /\ DOMAIN m.payload \cap getProtectedFields = {}

\* C37: every update push is delivered to a peer that, by the ACL the store
\* holds after the step, still has a grant path to Read on the entry
\* (service-level grant, checkAccess, or an ACL entry); this includes the
\* push by which adminSetEntryACL announces the new ACL.
C37_PushOnlyWithAccess ==
    \A x \in emitted.pushes :
        x.event = "update"
           => LET row == db[x.svc][x.entryId]
                  stored == IF row.exists THEN FoundEntity(row.hasAcl, row.acl)
                            ELSE FoundNull
              IN checkSubscriptionAccess(x.svc, sockets[x.to], x.entryId,
                                         "Read", stored)

\* C20: a step of adminUnsubscribeAll emits one
\* `${service}:unsubscribed:${entryId}` event with a reason payload to every
\* socket of the entry's set, deletes the set and returns the size the set
\* had.  Afterwards an update is pushed only to sockets that are in the set
\* when it is broadcast, and a socket enters a set only by a subscribe of its
\* own.
C20_UnsubscribeAll ==
    /\ [][\A x \in Targets :
            adminUnsubscribeAll(x[1], x[2])
              => LET old == subscribers[x[1]][x[2]].sockets
                     live == {k \in old : sockets[k].connected}
                     notes == emitted'.pushes
                 IN /\ \A m \in notes :
                          /\ m.event = "unsubscribed"
                          /\ m.svc = x[1] /\ m.entryId = x[2]
                          /\ DOMAIN m.payload = {"reason"}
                    /\ {m.to : m \in notes} = live
                    /\ Cardinality(notes) = Cardinality(live)
                    /\ subscribers'[x[1]][x[2]] = NoSet
                    /\ emitted'.done.success
                    /\ emitted'.done.count = Cardinality(old)]_vars
    /\ [][\A m \in emitted'.pushes :
            m.event = "update"
              => m.to \in subscribers[m.svc][m.entryId].sockets]_vars
    /\ [][\A k \in Sockets, x \in Targets :
            (/\ k \notin subscribers[x[1]][x[2]].sockets
             /\ k \in subscribers'[x[1]][x[2]].sockets)
               => \/ SubscribeAclDone(k)
                  \/ SubscribeRecv(k, x[1], x[2], "Read")]_vars

\* adminUnsubscribeAll has just removed two subscribers of document d1 and
\* notified both
C20_Witness ==
    /\ emitted.done.kind = "unsubscribeAll"
    /\ emitted.done.count = 2
    /\ Cardinality(emitted.pushes) = 2
    /\ \A m \in emitted.pushes : m.event = "unsubscribed" /\ m.entryId = "d1"
    /\ ~subscribers["docService"]["d1"].has

----------------------------------------------------------------------------
(* Client cache properties                                                 *)

\* C13: when a push carrying the deleted marker is handled, the cached value
\* of that subscription becomes null; nothing of the previous value and
\* nothing of the push is merged into it.
C13_TombstoneClears ==
    [][\A updateData \in PushData(CacheKey) :
          (Deleted(updateData) /\ ReceivePush(CacheKey, updateData))
             => cache'[CacheKey] = NoData]_vars

\* A tombstone has just been handled on a cache that held an entity
C13_Witness ==
    /\ lastRet = [op |-> "tombstone", key |-> CacheKey, ret |-> TRUE,
                  cleanups |-> 0]
    /\ cache[CacheKey] = NoData

\* C14: when a push without the deleted marker is handled, the cached value
\* becomes the push itself if there was no previous value, and otherwise the
\* shallow merge: every field of the push with the push's value, every other
\* field of the previous value unchanged, and no further field.
C14_ShallowMerge ==
    [][\A updateData \in PushData(CacheKey) :
          (~Deleted(updateData) /\ ReceivePush(CacheKey, updateData))
             => LET old == cache[CacheKey]
                    new == cache'[CacheKey]
                IN IF old = NoData
                   THEN new = updateData
                   ELSE /\ DOMAIN new = DOMAIN old \cup DOMAIN updateData
                        /\ \A f \in DOMAIN updateData : new[f] = updateData[f]
                        /\ \A f \in DOMAIN old \ DOMAIN updateData :
                              new[f] = old[f]]_vars

\* A push has been merged: the cached value keeps a field only the earlier
\* value had and carries a field only a push brought
C14_Witness ==
    /\ lastRet = [op |-> "push", key |-> CacheKey, ret |-> TRUE, cleanups |-> 0]
    /\ DOMAIN cache[CacheKey] = {"id", "title", "email", "deleted"}
    /\ cache[CacheKey]["title"] = "t1"

----------------------------------------------------------------------------
(* Method hook properties                                                  *)

\* C22: when the timer of a request fires, the call fails with "Request
\* timeout" (or is retried), nothing is sent to the server and the request
\* stays with the server as it was, so its handler still finishes; and when
\* the acknowledgment of such a request arrives later, the loading flag, the
\* error, the data and the number of onSuccess calls the hook shows stay as
\* they were.
C22_LateAckIgnored ==
    /\ [][(call.pc = "pending" /\ Timeout)
            => /\ call.cur \in call'.late
               /\ call'.pc = "idle" => call'.error = "Request timeout" /\ wire' = {}
               /\ call'.pc = "pending" => call'.cur.id = call.n + 1]_vars
    /\ [][\A r \in Requests :
            (r \in call.late /\ LateAckArrives(r))
               => Shown(call') = Shown(call)]_vars

\* C30 (as stated): every request useServiceQuery emits is emitted in a step
\* that starts with the enabled option true and the socket connected, and
\* the query, once enabled, connected and idle, can emit its request.
C30_NoRequestWhileDisabled ==
    /\ [][(call.hook = "useServiceQuery"
             /\ [event |-> "method", key |-> NoKey] \in wire')
            => call.enabled /\ socketRef /\ isConnected]_vars
    /\ [](( /\ call.hook = "useServiceQuery"
            /\ call.enabled /\ socketRef /\ isConnected
            /\ call.pc = "idle" /\ call.n < MaxCalls) => ENABLED Call)

\* C30 (amended): every request useServiceQuery emits is emitted on a
\* connected socket, and with the enabled option true unless the request is
\* that of a refetch() call or the retry of a fetch that is running; the
\* query starts a fetch by itself only when enabled and connected, it can
\* do so whenever it is enabled, connected and idle, and that step emits
\* the one method request and starts the timer.
C30_QueryGated ==
    /\ [][(call.hook = "useServiceQuery"
             /\ [event |-> "method", key |-> NoKey] \in wire')
            => /\ socketRef /\ isConnected
               /\ call.enabled \/ call'.by \in {"refetch", "retry"}
               /\ call'.n = call.n + 1
               /\ call'.cur = [id |-> call'.n, stage |-> "sent"]]_vars
    /\ [][(call.hook = "useServiceQuery" /\ Call)
            => /\ call.enabled /\ socketRef /\ isConnected
               /\ wire' = {[event |-> "method", key |-> NoKey]}
               /\ call'.pc = "pending"
               /\ call'.by = "call"]_vars
    /\ [](( /\ call.hook = "useServiceQuery"
            /\ call.enabled /\ socketRef /\ isConnected
            /\ call.pc = "idle" /\ call.n < MaxCalls) => ENABLED Call)
    /\ []((call.hook = "useServiceQuery" /\ call.n = 0)
            => (ENABLED Call <=> call.enabled /\ socketRef /\ isConnected))

\* The query fetched once by itself, was disabled afterwards, and refetch()
\* has just emitted its second request on the connected socket
C30_Witness ==
    /\ call.hook = "useServiceQuery"
    /\ ~call.enabled
    /\ isConnected
    /\ call.by = "refetch"
    /\ call.pc = "pending"
    /\ call.n = 2
    /\ call.successes = 1
    /\ wire = {[event |-> "method", key |-> NoKey]}

(* Client registry properties                                              *)

\* C21: clear() runs the cleanup of every entry that has one exactly once
\* (one unsubscribe per such key, none for the others) and empties the map;
\* it runs in the step in which the transport disconnects and in the step in
\* which a new socket is created, so the map is empty whenever the client is
\* not connected, and an acquire that finds its key absent creates the entry
\* and emits a subscribe message.
C21_ClearOnReconnect ==
    /\ [](~isConnected => \A key \in Keys : subscriptions[key] = NoEntrySlot)
    /\ [][((isConnected /\ ~isConnected') \/ (~socketRef /\ socketRef'))
            => LET had == {key \in Keys : subscriptions[key].has
                                           /\ subscriptions[key].cleanup}
               IN /\ lastRet'.op = "clear"
                  /\ lastRet'.cleanups = Cardinality(had)
                  /\ \A key \in Keys :
                        /\ subscriptions'[key] = NoEntrySlot
                        /\ sent'.unsubscribe[key] =
                              sent.unsubscribe[key]
                                + (IF key \in had THEN 1 ELSE 0)
                        /\ ([event |-> "unsubscribe", key |-> key] \in wire')
                              = (key \in had)
                  /\ listeners' = listeners \ had]_vars
    /\ [][\A o \in Observers, key \in Keys :
            (isConnected /\ ~subscriptions[key].has /\ Mount(o, key))
               => /\ subscriptions'[key].has
                  /\ subscriptions'[key].refCount = 1
                  /\ wire' = {[event |-> "subscribe", key |-> key]}
                  /\ sent'.subscribe[key] = sent.subscribe[key] + 1]_vars

\* After a transport disconnect whose clear() ran the cleanup of document d1,
\* the first acquire on the next connection has just created the entry again
\* and sent the second subscribe
C21_Witness ==
    /\ cleared
    /\ isConnected
    /\ lastRet = [op |-> "acquire", key |-> "docService:d1", ret |-> FALSE,
                  cleanups |-> 0]
    /\ wire = {[event |-> "subscribe", key |-> "docService:d1"]}
    /\ sent.subscribe["docService:d1"] = 2
    /\ sent.unsubscribe["docService:d1"] = 1
    /\ subscriptions["docService:d1"].refCount = 1

(* Reference counting                                              *)

\* C3: with no clear() since the registry was created, a key acquired more
\* often than released keeps its entry, with refCount equal to the number of
\* outstanding acquisitions, and no acquire and no release that leaves an
\* acquisition outstanding runs the cleanup or returns true; the release that
\* brings the outstanding count to zero runs the cleanup exactly once, removes
\* the entry and returns true.
C3_RefCount ==
    ~cleared =>
        /\ \A key \in Keys :
              LET n == Cardinality(Holders(key))
              IN IF n > 0
                 THEN /\ subscriptions[key].has
                      /\ subscriptions[key].refCount = n
                 ELSE ~subscriptions[key].has
        /\ lastRet.op = "acquire" => lastRet.cleanups = 0
        /\ lastRet.op = "release" =>
              IF Holders(lastRet.key) # {}
              THEN ~lastRet.ret /\ lastRet.cleanups = 0
              ELSE lastRet.ret /\ lastRet.cleanups = 1

\* The last of several releases has just run the cleanup and returned true,
\* while the other key is held twice.
C3_Witness ==
    /\ ~cleared
    /\ lastRet = [op |-> "release", key |-> "docService:d1", ret |-> TRUE,
                  cleanups |-> 1]
    /\ sent.subscribe["docService:d1"] = 2
    /\ Cardinality(Holders("userService:u1")) = 2
    /\ subscriptions["userService:u1"].refCount = 2

\* C4: on one connection (no clear()), for every key the number of subscribe
\* messages emitted is the number of unsubscribe messages emitted plus one
\* while at least one observer is mounted and equal to it otherwise; a
\* subscribe is emitted only by the mount of the first observer and an
\* unsubscribe only by the unmount that leaves no observer.
C4_SinglePair ==
    ~cleared =>
        /\ \A key \in Keys :
              sent.subscribe[key] =
                 sent.unsubscribe[key] + (IF Holders(key) # {} THEN 1 ELSE 0)
        /\ \A m \in wire :
              /\ m.event = "subscribe" => Cardinality(Holders(m.key)) = 1
              /\ m.event = "unsubscribe" => Holders(m.key) = {}

\* Every observer is mounted on one key after a single subscribe, and the
\* other key has been through a complete subscribe / unsubscribe pair.
C4_Witness ==
    /\ ~cleared
    /\ Cardinality(Holders("docService:d1")) = NumObservers
    /\ sent.subscribe["docService:d1"] = 1
    /\ sent.unsubscribe["docService:d1"] = 0
    /\ sent.subscribe["userService:u1"] = 1
    /\ sent.unsubscribe["userService:u1"] = 1

(* Rate limiter properties                                                 *)

RECURSIVE TruesIn(_, _, _)
\* the calls of check for key that returned true at a time in lo..hi
TruesIn(key, lo, hi) ==
    IF lo > hi THEN 0
    ELSE (IF lo \in 0..MaxNow THEN trues[key][lo] ELSE 0) + TruesIn(key, lo + 1, hi)

C32_DebounceCommits ==
    [][(input.commitMode = "debounce" /\ input.calls = <<>> /\ TimerFires)
         => /\ Len(input'.updates) = Len(input.updates) + 1
            /\ input'.updates[Len(input'.updates)] = input.localValue]_vars

----------------------------------------------------------------------------
(* Client registry across clear()                                         *)

\* C38: under any interleaving of acquire, release and clear the registry's
\* count for a key equals the number of mounted observers that acquired it
\* and have not yet released it, and a release never tears an entry down
\* while another observer that acquired the key is still mounted
C38_CountMatchesObservers ==
    /\ \A key \in Keys :
          subscriptions[key].refCount = Cardinality(Holders(key))
    /\ (lastRet.op = "release" /\ lastRet.cleanups > 0)
          => Holders(lastRet.key) = {}

----------------------------------------------------------------------------
(* isSubscribed                                                           *)

\* C39: a mounted observer reports isSubscribed = true only if the subscribe
\* request of its key was acknowledged with success on the current
\* connection; after a denied subscribe no observer of the key reports true
C39_SubscribedOnlyAfterAck ==
    \A o \in Observers :
        (observers[o] # NoKey /\ subHook.isSubscribed[o])
            => /\ isConnected
               /\ subHook.acked[observers[o]] = "ok"

----------------------------------------------------------------------------
(* Required level of a subscription                                       *)

\* C40: a peer is added to an entry's subscriber set only if, at that
\* moment, it holds at least Read on the entry through the service-level
\* grant, the custom predicate or the stored ACL, whatever requiredLevel its
\* subscribe payload named
C40_SubscribedOnlyWithRead ==
    [][\A k \in Sockets, svc \in Services, e \in Entries :
          (k \notin subscribers[svc][e].sockets
             /\ k \in subscribers'[svc][e].sockets)
          => LET peer == IF req[k].kind = "subscribe"
                         THEN req[k].who ELSE sockets[k]
             IN checkSubscriptionAccess(svc, peer, e, "Read",
                                        findUnique(svc, e))]_vars

====
